---- MODULE Spec2Model ----
(***************************************************************************)
(* Physics body synchronisation and play-session lifecycle of the editor:  *)
(* the scene store (sceneStore.js), the body registry and stepper          *)
(* (PhysicsWorld.js) and the play store (playStore.js).                    *)
(*                                                                         *)
(* The simulator (cannon-es) is a black box: a world step moves DYNAMIC    *)
(* bodies nondeterministically and leaves STATIC and KINEMATIC bodies      *)
(* (zero velocity) where they are.  A transform is a height on a small     *)
(* grid: play() snapshots, stop() restores and step() copies position and  *)
(* rotation together, so one value stands for the pair.  The loops of      *)
(* play(), stop() and activateAllPhysicsBodies() treat every store entry   *)
(* independently, so the model follows one object identity per element of  *)
(* Objs; its kind (Mesh or Group/GLTF root) is chosen when it is created.  *)
(*                                                                         *)
(* Three further parts have their own state and specification: the         *)
(* character controller with the two animation-frame loops (CharSpec), the *)
(* contact routing of PhysicsWorld (RouterSpec) and the physics inspector  *)
(* (InspSpec).  Every action leaves the state of the other parts alone.    *)
(* Single operations (body construction, child shapes, the stepper's time  *)
(* step, shape inference) are applied to inputs chosen in the initial      *)
(* state by BuildSpec, FrameSpec, StepSpec and InferSpec.                  *)
(***************************************************************************)
EXTENDS Integers, FiniteSets, Sequences, TLC

\* ----- bounds ------------------------------------------------------------
MaxPos == 1
MaxFrames == 1
MaxOrphans == 1

\* ----- program constants -------------------------------------------------
FallbackY == 3

\* ----- value sets --------------------------------------------------------
Objs == {"obj"}
Kinds == {"Mesh", "Group"}
NoSnap == -1
NoBody == [kind |-> "none"]
NoPhysics == [absent |-> TRUE]

Transform == 0..MaxPos

PhysicsProps == [enabled : BOOLEAN, isStatic : BOOLEAN, isTrigger : BOOLEAN, autoCreate : BOOLEAN]

Metadata == [hasPhysics : BOOLEAN, enabled : BOOLEAN]

Max(a, b) == IF a >= b THEN a ELSE b

VARIABLES
  objects,          \* sceneStore.objects keys (objects also present in the scene)
  kind,             \* threeObject.type of each object
  physics,          \* objectData.physics
  collisionFrames,  \* objectData.collisionFrames.length
  visual,           \* threeObject.position / rotation
  original,         \* threeObject.userData.originalPosition / originalRotation
  bodies,           \* PhysicsWorld.bodies (registry), with each body's simulator state
  orphans,          \* bodies still in the simulator world whose registry entry was overwritten
  physicsBodyRef,   \* threeObject.userData.physicsBody is set
  simEnabled,       \* PhysicsWorld.enabled
  suppress,         \* sceneStore.suppressCollisionFrameUpdates
  isPlaying,        \* playStore.isPlaying
  isPaused,         \* playStore.isPaused
  playPc,           \* position inside play(): idle, started, built
  rt,               \* history: progress of the current play/stop sequence
  pre               \* history: transforms of the physics-enabled objects when the session started

storeVars == <<objects, kind, physics, collisionFrames, visual, original>>
worldVars == <<bodies, orphans, physicsBodyRef, simEnabled>>
playVars == <<suppress, isPlaying, isPaused, playPc>>
histVars == <<rt, pre>>
vars == <<objects, kind, physics, collisionFrames, visual, original, bodies, orphans,
          physicsBodyRef, simEnabled, suppress, isPlaying, isPaused, playPc, rt, pre>>

\* Character controller (AdvancedCharacterController.jsx) and the two frame loops.
VARIABLES
  player,           \* position of the character's scene object (playerRef.current.position)
  charKind,         \* threeObject.type of the character
  charBody,         \* the character's registered body (position, userData.offset present)
  ctrlActive,       \* the controller's effect is active: listeners and loop registered
  cameraRef,        \* cameraRef.current is set
  ctrlBody,         \* the controller's physicsBodyRef.current is set
  retryPending,     \* the controller's setTimeout(..., 100) has not fired yet
  heldBody,         \* the body physicsBodyRef.current holds when it is no longer the registered one
  rafQueue,         \* callbacks registered with requestAnimationFrame for the next frame
  frameRun,         \* callbacks of the frame in progress that have not run yet
  moveKey,          \* a movement key is held (keysPressed)
  lastRan           \* history: which of step / controller tick ran last since activation

charVars == <<player, charKind, charBody, ctrlActive, cameraRef, ctrlBody, retryPending, heldBody,
              rafQueue, frameRun, moveKey, lastRan>>

\* Contact routing of PhysicsWorld (setupCollisionDetection and the callback sets).
VARIABLES
  registered,        \* PhysicsWorld.bodies for the two objects of a contact pair
  nextId,            \* identity given to the next body that is created
  contact,           \* the pair of bodies the simulator holds as overlapping
  audioCallbacks,    \* PhysicsWorld.audioCallbacks, in insertion order
  platformCallbacks, \* PhysicsWorld.platformCallbacks, in insertion order
  lastEvent,         \* what the step just taken dispatched, if it was a contact event
  pendingEnter       \* history: an 'enter' was dispatched and no 'exit' since

routerVars == <<registered, nextId, contact, audioCallbacks, platformCallbacks,
                lastEvent, pendingEnter>>

\* PhysicsInspector (AudioControls.jsx) editing the stored physics config.
VARIABLES
  inspPhysics,       \* the inspector's local `physics` state
  inspStored         \* objectData.physics of the selected object

inspVars == <<inspPhysics, inspStored>>

\* Body construction of PhysicsWorld.addBody, applied to one stored config and
\* one scene object by each of the callers that create bodies.
VARIABLES
  buildCfg,          \* objectData.physics of the object (with isPlayer)
  buildObj,          \* the scene object: name, rotation, geometry
  built,             \* the body the last addBody call created and registered
  builtBy            \* which caller made that call

buildVars == <<buildCfg, buildObj, built, builtBy>>

\* The stepper's time step: PhysicsWorld.step and its callers.  Time is counted
\* in sixtieths of a second.
VARIABLES
  stepPlaying,       \* playStore.isPlaying as the viewport loop reads it
  stepEnabled,       \* PhysicsWorld.enabled
  worldTime,         \* simulated time the world has been advanced by
  stepCall           \* the last call of step: caller, dt passed, time advanced

stepVars == <<stepPlaying, stepEnabled, worldTime, stepCall>>

\* The child shape addBody attaches for one collision frame of a compound body.
\* Lengths are counted in halves of a scene unit.
VARIABLES
  frame,             \* the collision frame: type, size, radius, position, rotation
  worldScale,        \* threeObject.getWorldScale()
  child              \* the shape attached for the frame, its offset and orientation

frameVars == <<frame, worldScale, child>>

\* Shape inference (autoDetectCollisionShape) applied to one object.
VARIABLES
  inferMesh,         \* the object's first mesh: what its vertices form, how many there are
  inferred,          \* the shape description the last detection returned
  inferSize,         \* size of the object's world bounding box, in quarters of a scene unit
  inferBody          \* the body play() built for the object from a detected shape

inferVars == <<inferMesh, inferred, inferSize, inferBody>>

\* The collision-frame editors of PhysicsInspector (AudioControls.jsx) on one
\* object, the store's write suppression and the play session as they see it.
VARIABLES
  edScene,           \* sceneStore.scene is set
  edSuppress,        \* sceneStore.suppressCollisionFrameUpdates
  edPlaying,         \* playStore.isPlaying
  edSelected,        \* the object is the selected object
  edGround,          \* the object's name is ground-like ('Ground', 'plane', ...)
  storedFrames,      \* objectData.collisionFrames
  localFrames        \* the inspector's local `collisionFrames` state

editVars == <<edScene, edSuppress, edPlaying, edSelected, edGround, storedFrames, localFrames>>

\* The registry of PhysicsWorld and the back-references it leaves on the scene
\* objects, with bodies told apart by an identity; 0 stands for no body.
VARIABLES
  regBodies,         \* PhysicsWorld.bodies: the body registered for each object
  regBackRef,        \* threeObject.userData.physicsBody of each object
  regWorld,          \* the bodies held by the simulator world
  regNextId          \* identity of the next body that is constructed

regVars == <<regBodies, regBackRef, regWorld, regNextId>>

\* State of the parts that apply a single operation to chosen inputs.
fnVars == <<buildVars, stepVars, frameVars, inferVars>>

extVars == <<charVars, routerVars, inspVars, fnVars, editVars, regVars>>

\* Everything outside fnVars.
restVars == <<vars, charVars, routerVars, inspVars, editVars, regVars>>

allVars == <<vars, extVars>>

NoPre == [o \in Objs |-> NoSnap]

HistReset == rt' = "none" /\ pre' = NoPre

Enabled(o) == o \in objects /\ physics[o] # NoPhysics /\ physics[o].enabled

HasBody(o) == bodies[o] # NoBody

\* Bodies in the simulator world that were created for object o.
WorldCount(o) == orphans[o] + (IF HasBody(o) THEN 1 ELSE 0)

\* ----- PhysicsWorld -------------------------------------------------------

\* Body kind chosen by addBody from its options.
BodyKind(opts) ==
  IF opts.type = "solidPlatform" THEN "STATIC"
  ELSE IF opts.isTrigger \/ opts.type = "platform" THEN "KINEMATIC"
  ELSE IF opts.isStatic THEN "STATIC"
  ELSE "DYNAMIC"

\* The body addBody constructs for an object whose visual transform is t.
NewBody(t, opts) ==
  [kind |-> BodyKind(opts),
   type |-> opts.type,
   frames |-> IF opts.type = "compound" THEN opts.frames ELSE 0,
   t |-> t]

Opts(type, isStatic, isTrigger, frames) ==
  [type |-> type, isStatic |-> isStatic, isTrigger |-> isTrigger, frames |-> frames]

\* A registry that keeps the body an object already has.
AddBodyKeep(b, o, t, opts) ==
  IF b[o] # NoBody THEN b ELSE [b EXCEPT ![o] = NewBody(t, opts)]

\* addBody: the registry entry and the back-reference are overwritten; addBody
\* removes nothing, so a body registered before stays in the simulator world
\* (OrphansAfterAdd).
AddBody(b, o, t, opts) == [b EXCEPT ![o] = NewBody(t, opts)]

OrphansAfterAdd(b, orph, o) ==
  IF b[o] # NoBody THEN [orph EXCEPT ![o] = @ + 1] ELSE orph

RemoveBody(b, o) == [b EXCEPT ![o] = NoBody]

\* Simulator: possible transforms of a body after one world step.
WorldStepOutcomes(b) ==
  IF b = NoBody THEN {NoBody}
  ELSE IF b.kind = "DYNAMIC"
    THEN {[b EXCEPT !.t = np] : np \in {b.t, Max(b.t - 1, 0)}}
    ELSE {b}

\* Copy loop of step(): which visual transform results for object o.
StepWriteBack(b, v) ==
  IF b # NoBody /\ b.kind # "STATIC" /\ b.t # v THEN b.t ELSE v

\* ----- initial state ------------------------------------------------------

DefaultPhysics == [enabled |-> FALSE, isStatic |-> FALSE, isTrigger |-> FALSE, autoCreate |-> FALSE]

Init ==
  /\ objects = {}
  /\ kind = [o \in Objs |-> "Mesh"]
  /\ physics = [o \in Objs |-> NoPhysics]
  /\ collisionFrames = [o \in Objs |-> 0]
  /\ visual = [o \in Objs |-> 0]
  /\ original = [o \in Objs |-> NoSnap]
  /\ bodies = [o \in Objs |-> NoBody]
  /\ orphans = [o \in Objs |-> 0]
  /\ physicsBodyRef = [o \in Objs |-> FALSE]
  /\ simEnabled = FALSE
  /\ suppress = FALSE
  /\ isPlaying = FALSE
  /\ isPaused = FALSE
  /\ playPc = "idle"
  /\ rt = "none"
  /\ pre = NoPre

\* ----- sceneStore ----------------------------------------------------------

\* objectData.physics stored by addObject for an object of kind k.
AddObjectPhysics(k, m) ==
  IF k = "Mesh" THEN [DefaultPhysics EXCEPT !.enabled = m.hasPhysics /\ m.enabled]
  ELSE IF m.hasPhysics THEN [DefaultPhysics EXCEPT !.enabled = m.enabled]
  ELSE NoPhysics

\* addObject(object, metadata): a new object of kind k at transform t, or an
\* object already in the store (then k and t are its own).
AddObject(o, k, t, m) ==
  /\ playPc = "idle"
  /\ o \in objects => (k = kind[o] /\ t = visual[o])
  /\ LET ph == AddObjectPhysics(k, m)
         creates == k = "Mesh" /\ ph.enabled
     IN /\ (creates /\ HasBody(o)) => orphans[o] < MaxOrphans
        /\ objects' = objects \cup {o}
        /\ kind' = [kind EXCEPT ![o] = k]
        /\ visual' = [visual EXCEPT ![o] = t]
        /\ original' = IF o \in objects THEN original
                       ELSE [original EXCEPT ![o] = IF k = "Mesh" THEN t ELSE NoSnap]
        /\ physics' = [physics EXCEPT ![o] = ph]
        /\ collisionFrames' = [collisionFrames EXCEPT ![o] = 0]
        /\ IF creates
             THEN /\ bodies' = AddBody(bodies, o, t, Opts("box", FALSE, FALSE, 0))
                  /\ orphans' = OrphansAfterAdd(bodies, orphans, o)
                  /\ physicsBodyRef' = [physicsBodyRef EXCEPT ![o] = TRUE]
             ELSE UNCHANGED <<bodies, orphans, physicsBodyRef>>
  /\ UNCHANGED <<simEnabled, suppress, isPlaying, isPaused, playPc>>
  /\ HistReset
  /\ UNCHANGED extVars

\* removeObject(objectId)
RemoveObject(o) ==
  /\ playPc = "idle"
  /\ o \in objects
  /\ bodies' = RemoveBody(bodies, o)
  /\ physicsBodyRef' = [physicsBodyRef EXCEPT ![o] = FALSE]
  /\ objects' = objects \ {o}
  /\ kind' = [kind EXCEPT ![o] = "Mesh"]
  /\ physics' = [physics EXCEPT ![o] = NoPhysics]
  /\ collisionFrames' = [collisionFrames EXCEPT ![o] = 0]
  /\ visual' = [visual EXCEPT ![o] = 0]
  /\ original' = [original EXCEPT ![o] = NoSnap]
  /\ UNCHANGED <<orphans, simEnabled, suppress, isPlaying, isPaused, playPc>>
  /\ HistReset
  /\ UNCHANGED extVars

\* Body type requested by updatePhysicsProperties.
RequestedType(props) == IF props.autoCreate THEN "convex" ELSE "box"

UpdatePhysicsOpts(props) == Opts(RequestedType(props), props.isStatic, props.isTrigger, 0)

\* Registry after updatePhysicsProperties(objectId, physicsProps).
UpdatePhysicsBodies(o, props) ==
  IF props.enabled /\ ~HasBody(o)
    THEN AddBody(bodies, o, visual[o], UpdatePhysicsOpts(props))
  ELSE IF ~props.enabled /\ HasBody(o)
    THEN RemoveBody(bodies, o)
  ELSE IF HasBody(o) /\ props.enabled
    THEN AddBody(RemoveBody(bodies, o), o, visual[o], UpdatePhysicsOpts(props))
  ELSE bodies

UpdatePhysicsProperties(o, props) ==
  /\ playPc = "idle"
  /\ o \in objects
  /\ bodies' = UpdatePhysicsBodies(o, props)
  /\ physicsBodyRef' = [physicsBodyRef EXCEPT ![o] = bodies'[o] # NoBody]
  /\ physics' = [physics EXCEPT ![o] = props]
  /\ UNCHANGED <<objects, kind, collisionFrames, visual, original, orphans, simEnabled>>
  /\ UNCHANGED playVars
  /\ HistReset
  /\ UNCHANGED extVars

\* updateObjectData(objectId, {collisionFrames}) with n frames
UpdateObjectData(o, n) ==
  /\ playPc = "idle"
  /\ o \in objects
  /\ collisionFrames' = IF suppress THEN collisionFrames
                        ELSE [collisionFrames EXCEPT ![o] = n]
  /\ UNCHANGED <<objects, kind, physics, visual, original>>
  /\ UNCHANGED worldVars
  /\ UNCHANGED playVars
  /\ HistReset
  /\ UNCHANGED extVars

\* updateObjectTransform(objectId, transform)
UpdateObjectTransform(o, t) ==
  /\ playPc = "idle"
  /\ o \in objects
  /\ visual' = [visual EXCEPT ![o] = t]
  /\ UNCHANGED <<objects, kind, physics, collisionFrames, original>>
  /\ UNCHANGED worldVars
  /\ UNCHANGED playVars
  /\ HistReset
  /\ UNCHANGED extVars

\* enablePhysics / disablePhysics
EnablePhysics ==
  /\ playPc = "idle"
  /\ simEnabled' = TRUE
  /\ UNCHANGED <<bodies, orphans, physicsBodyRef>>
  /\ UNCHANGED storeVars
  /\ UNCHANGED playVars
  /\ HistReset
  /\ UNCHANGED extVars

DisablePhysics ==
  /\ playPc = "idle"
  /\ simEnabled' = FALSE
  /\ UNCHANGED <<bodies, orphans, physicsBodyRef>>
  /\ UNCHANGED storeVars
  /\ UNCHANGED playVars
  /\ HistReset
  /\ UNCHANGED extVars

\* Registry after activateAllPhysicsBodies() run on registry b.
ActivateAllResult(b) ==
  [o \in Objs |->
     IF Enabled(o) /\ kind[o] = "Mesh" /\ b[o] = NoBody
       THEN NewBody(visual[o], Opts("box", FALSE, FALSE, 0))
       ELSE b[o]]

ActivateAllPhysicsBodies ==
  /\ playPc = "idle"
  /\ bodies' = ActivateAllResult(bodies)
  /\ physicsBodyRef' = [o \in Objs |-> physicsBodyRef[o] \/ bodies'[o] # NoBody]
  /\ UNCHANGED <<orphans, simEnabled>>
  /\ UNCHANGED storeVars
  /\ UNCHANGED playVars
  /\ HistReset
  /\ UNCHANGED extVars

\* deactivateAllPhysicsBodies(): every physics-enabled object loses its body.
DeactivateAllPhysicsBodies ==
  /\ playPc = "idle"
  /\ bodies' = [o \in Objs |-> IF Enabled(o) THEN NoBody ELSE bodies[o]]
  /\ physicsBodyRef' = [o \in Objs |-> physicsBodyRef[o] /\ bodies'[o] # NoBody]
  /\ UNCHANGED <<orphans, simEnabled>>
  /\ UNCHANGED storeVars
  /\ UNCHANGED playVars
  /\ HistReset
  /\ UNCHANGED extVars

\* resetPhysics(): resetAllBodies copies the visual transform onto every body.
ResetPhysics ==
  /\ playPc = "idle"
  /\ bodies' = [o \in Objs |-> IF HasBody(o) THEN [bodies[o] EXCEPT !.t = visual[o]] ELSE NoBody]
  /\ UNCHANGED <<orphans, physicsBodyRef, simEnabled>>
  /\ UNCHANGED storeVars
  /\ UNCHANGED playVars
  /\ HistReset
  /\ UNCHANGED extVars

\* ----- playStore -----------------------------------------------------------

\* play(), lines 199-207: collision-frame writes are suppressed, the store is read.
PlayStartEarly ==
  /\ playPc = "idle"
  /\ playPc' = "started"
  /\ suppress' = TRUE
  /\ isPlaying' = TRUE
  /\ rt' = IF ~isPlaying THEN (IF rt = "s1" THEN "p2" ELSE "p1")
           ELSE (IF rt \in {"p1", "pp"} THEN "pp" ELSE "none")
  /\ pre' = IF ~isPlaying
              THEN (IF rt = "s1" THEN pre
                    ELSE [o \in Objs |-> IF Enabled(o) THEN visual[o] ELSE NoSnap])
              ELSE (IF rt \in {"p1", "pp"} THEN pre ELSE NoPre)
  /\ UNCHANGED <<isPaused>>
  /\ UNCHANGED storeVars
  /\ UNCHANGED worldVars
  /\ UNCHANGED extVars

PlayStart ==
  /\ playPc = "idle"
  /\ playPc' = "started"
  /\ suppress' = TRUE
  /\ rt' = IF ~isPlaying THEN (IF rt = "s1" THEN "p2" ELSE "p1")
           ELSE (IF rt \in {"p1", "pp"} THEN "pp" ELSE "none")
  /\ pre' = IF ~isPlaying
              THEN (IF rt = "s1" THEN pre
                    ELSE [o \in Objs |-> IF Enabled(o) THEN visual[o] ELSE NoSnap])
              ELSE (IF rt \in {"p1", "pp"} THEN pre ELSE NoPre)
  /\ UNCHANGED <<isPlaying, isPaused>>
  /\ UNCHANGED storeVars
  /\ UNCHANGED worldVars
  /\ UNCHANGED extVars

\* Options play() passes to addBody for an object with manual frames.
CompoundOpts(o) == Opts("compound", physics[o].isStatic, FALSE, collisionFrames[o])

\* Options play() passes to addBody for an explicit autoCreate request.
AutoOpts(o) == Opts("detected", physics[o].isStatic, FALSE, 0)

\* Registry entry of object o after the forEach loop of play().
PlayLoopBody(o) ==
  IF ~Enabled(o) THEN bodies[o]
  ELSE IF kind[o] = "Mesh"
    THEN (IF collisionFrames[o] > 0 THEN NewBody(visual[o], CompoundOpts(o))
          ELSE IF physics[o].autoCreate THEN NewBody(visual[o], AutoOpts(o))
          ELSE bodies[o])
    ELSE (IF collisionFrames[o] > 0 THEN bodies[o]
          ELSE IF physics[o].autoCreate THEN NewBody(visual[o], AutoOpts(o))
          ELSE bodies[o])

\* userData.originalPosition / originalRotation after the loop of play().
PlaySnapshot(o) == IF Enabled(o) THEN visual[o] ELSE original[o]

\* play(), lines 209-419: the loop over the store, the safeguard, setEnabled(true).
PlayBuild ==
  /\ playPc = "started"
  /\ playPc' = "built"
  /\ original' = [o \in Objs |-> PlaySnapshot(o)]
  /\ bodies' = ActivateAllResult([o \in Objs |-> PlayLoopBody(o)])
  /\ physicsBodyRef' = [o \in Objs |-> bodies'[o] # NoBody]
  /\ suppress' = FALSE
  /\ simEnabled' = TRUE
  /\ UNCHANGED <<objects, kind, physics, collisionFrames, visual, orphans>>
  /\ UNCHANGED <<isPlaying, isPaused>>
  /\ UNCHANGED histVars
  /\ UNCHANGED extVars

\* play(), line 422: set({ isPlaying: true, isPaused: false })
PlayFinish ==
  /\ playPc = "built"
  /\ playPc' = "idle"
  /\ isPlaying' = TRUE
  /\ isPaused' = FALSE
  /\ UNCHANGED <<suppress>>
  /\ UNCHANGED storeVars
  /\ UNCHANGED worldVars
  /\ UNCHANGED histVars
  /\ UNCHANGED extVars

\* pause()
Pause ==
  /\ playPc = "idle"
  /\ IF isPlaying
       THEN isPaused' = TRUE /\ simEnabled' = FALSE
       ELSE UNCHANGED <<isPaused, simEnabled>>
  /\ UNCHANGED <<bodies, orphans, physicsBodyRef>>
  /\ UNCHANGED <<suppress, isPlaying, playPc>>
  /\ UNCHANGED storeVars
  /\ HistReset
  /\ UNCHANGED extVars

\* resume()
Resume ==
  /\ playPc = "idle"
  /\ isPaused' = FALSE
  /\ simEnabled' = TRUE
  /\ UNCHANGED <<bodies, orphans, physicsBodyRef>>
  /\ UNCHANGED <<suppress, isPlaying, playPc>>
  /\ UNCHANGED storeVars
  /\ HistReset
  /\ UNCHANGED extVars

\* Objects stop() resets: physics enabled and threeObject.type === 'Mesh'.
StopResets(o) == Enabled(o) /\ kind[o] = "Mesh"

\* Visual transform stop() leaves on an object it resets.
StopTransform(o) ==
  IF original[o] # NoSnap THEN original[o]
  ELSE Max(visual[o], FallbackY)

\* stop()
Stop ==
  /\ playPc = "idle"
  /\ isPlaying' = FALSE
  /\ isPaused' = FALSE
  /\ simEnabled' = FALSE
  /\ bodies' = [o \in Objs |-> IF StopResets(o) THEN NoBody ELSE bodies[o]]
  /\ physicsBodyRef' = [o \in Objs |-> IF StopResets(o) THEN FALSE ELSE physicsBodyRef[o]]
  /\ visual' = [o \in Objs |-> IF StopResets(o) THEN StopTransform(o) ELSE visual[o]]
  /\ rt' = CASE rt = "p1" -> "s1"
             [] rt = "p2" -> "s2"
             [] rt = "pp" -> "pps"
             [] OTHER -> "none"
  /\ pre' = IF rt \in {"p1", "p2", "pp"} THEN pre ELSE NoPre
  /\ UNCHANGED <<objects, kind, physics, collisionFrames, original, orphans>>
  /\ UNCHANGED <<suppress, playPc>>
  /\ UNCHANGED extVars

\* ----- stepping -------------------------------------------------------------

\* PhysicsWorld.step(deltaTime) without the enabled test.
StepAlways ==
  /\ playPc = "idle"
  /\ \E nb \in [Objs -> UNION {WorldStepOutcomes(bodies[o]) : o \in Objs}] :
        /\ \A o \in Objs : nb[o] \in WorldStepOutcomes(bodies[o])
        /\ bodies' = nb
        /\ visual' = [o \in Objs |-> StepWriteBack(nb[o], visual[o])]
  /\ UNCHANGED <<objects, kind, physics, collisionFrames, original>>
  /\ UNCHANGED <<orphans, physicsBodyRef, simEnabled>>
  /\ UNCHANGED playVars
  /\ UNCHANGED histVars
  /\ UNCHANGED extVars

\* PhysicsWorld.step(deltaTime)
Step ==
  /\ playPc = "idle"
  /\ IF simEnabled
       THEN \E nb \in [Objs -> UNION {WorldStepOutcomes(bodies[o]) : o \in Objs}] :
              /\ \A o \in Objs : nb[o] \in WorldStepOutcomes(bodies[o])
              /\ bodies' = nb
              /\ visual' = [o \in Objs |-> StepWriteBack(nb[o], visual[o])]
       ELSE UNCHANGED <<bodies, visual>>
  /\ UNCHANGED <<objects, kind, physics, collisionFrames, original>>
  /\ UNCHANGED <<orphans, physicsBodyRef, simEnabled>>
  /\ UNCHANGED playVars
  /\ UNCHANGED histVars
  /\ UNCHANGED extVars

\* ----- physics debugger -------------------------------------------------------
\* The buttons of PhysicsDebugger.  The steps and the setEnabled(false) they
\* schedule with setTimeout arrive later as Step and DisablePhysics.

\* handleManualPhysicsTest: resetPhysics(), enablePhysics(), activateAllPhysicsBodies()
HandleManualPhysicsTest ==
  /\ playPc = "idle"
  /\ bodies' = ActivateAllResult([o \in Objs |-> IF HasBody(o)
                                                 THEN [bodies[o] EXCEPT !.t = visual[o]]
                                                 ELSE NoBody])
  /\ physicsBodyRef' = [o \in Objs |-> physicsBodyRef[o] \/ bodies'[o] # NoBody]
  /\ simEnabled' = TRUE
  /\ UNCHANGED orphans
  /\ UNCHANGED storeVars
  /\ UNCHANGED playVars
  /\ HistReset
  /\ UNCHANGED extVars

\* handleForcePhysicsOnCube: the object named DemoCube, if the scene has it,
\* loses its body, gets a box body and the simulator is enabled.
HandleForcePhysicsOnCube(o) ==
  /\ playPc = "idle"
  /\ o \in objects
  /\ kind[o] = "Mesh"
  /\ bodies' = AddBody(RemoveBody(bodies, o), o, visual[o], Opts("box", FALSE, FALSE, 0))
  /\ physicsBodyRef' = [physicsBodyRef EXCEPT ![o] = TRUE]
  /\ simEnabled' = TRUE
  /\ UNCHANGED orphans
  /\ UNCHANGED storeVars
  /\ UNCHANGED playVars
  /\ HistReset
  /\ UNCHANGED extVars

\* ----- character controller and frame loops -----------------------------------
\* The controller (AdvancedCharacterController.jsx) drives one character; the
\* viewport's animate() and the controller's loop() are two callbacks registered
\* with requestAnimationFrame.  A position is a cell (x, y) of a small grid, y
\* the height.  React runs the controller's effect and its cleanup in the click
\* that called play() / stop(), so both are part of those steps.  User input
\* and timers run between frames, never between two callbacks of one frame.

MaxCharX == 1
MaxCharY == 4

\* offset.y of autoDetectCharacterCollision: half the capsule height.
CapsuleOffset == 2

\* Where the character stands in the editor.
CharStart == [x |-> 0, y |-> 2]

\* A registration that puts the new callback before the ones already waiting.
RequestAnimationFrameFirst(q, cb) == <<cb>> \o q

\* window.requestAnimationFrame(cb): callbacks run in the order they registered.
RequestAnimationFrame(q, cb) == Append(q, cb)

\* window.cancelAnimationFrame(id)
CancelAnimationFrame(q, cb) == SelectSeq(q, LAMBDA c : c # cb)

\* PhysicsWorld.addBody for the character at position p: the body starts at
\* rest at the object's position, moved by options.offset when one is passed.
\* x stands for both horizontal axes, vx for the horizontal velocity.
CharBodyAt(p, withOffset, ox) ==
  [x |-> p.x + (IF withOffset THEN ox ELSE 0),
   y |-> p.y + (IF withOffset THEN CapsuleOffset ELSE 0),
   vx |-> 0,
   hasOffset |-> withOffset]

\* The body play() leaves registered for the character.  auto: the stored
\* config carries an autoCreate request; ox: offset.x of the detected capsule.
\* Only the Mesh branch passes the detected offset to addBody; a Mesh without
\* request gets a box from activateAllPhysicsBodies if it has no body; a
\* Group root without request keeps what it has.
CharPlayBody(auto, ox) ==
  IF auto
    THEN CharBodyAt(player, charKind = "Mesh", ox)
    ELSE IF charKind = "Mesh" /\ charBody = NoBody
           THEN CharBodyAt(player, FALSE, 0)
           ELSE charBody

\* world.step for the character's DYNAMIC body: it falls or rests, and a
\* contact may push it sideways and leave it with a horizontal velocity.
CharWorldStep(b) ==
  {[b EXCEPT !.x = x2, !.y = y2, !.vx = v] :
     x2 \in {b.x, IF b.x < MaxCharX THEN b.x + 1 ELSE b.x},
     y2 \in {b.y, Max(b.y - 1, 0)},
     v \in {0, 1}}

\* The copy loop of PhysicsWorld.step for the character's body.
CharWriteBack(b, p) ==
  IF b.x # p.x \/ b.y # p.y THEN [x |-> b.x, y |-> b.y] ELSE p

\* Init of the controller and the frame loops; the viewport's animate() is
\* registered from mount on.
CharInit(k) ==
  /\ player = CharStart
  /\ charKind = k
  /\ charBody = NoBody
  /\ ctrlActive = FALSE
  /\ cameraRef = FALSE
  /\ ctrlBody = FALSE
  /\ retryPending = FALSE
  /\ heldBody = NoBody
  /\ rafQueue = <<"animate">>
  /\ frameRun = <<>>
  /\ moveKey = FALSE
  /\ lastRan = "none"

\* play() on the character outside a session, followed by the controller's
\* effect (isPlaying true).  cam: the scene has a camera among its children.
CharPlay(auto, ox, cam) ==
  /\ ~isPlaying
  /\ frameRun = <<>>
  /\ LET b == CharPlayBody(auto, ox) IN
       /\ b # NoBody => (b.x <= MaxCharX /\ b.y <= MaxCharY)
       /\ charBody' = b
       /\ ctrlBody' = IF b # NoBody THEN TRUE ELSE ctrlBody
       /\ retryPending' = IF b # NoBody THEN retryPending ELSE TRUE
       /\ heldBody' = IF b # NoBody THEN NoBody ELSE heldBody
  /\ isPlaying' = TRUE
  /\ isPaused' = FALSE
  /\ simEnabled' = TRUE
  /\ ctrlActive' = TRUE
  /\ cameraRef' = cam
  /\ rafQueue' = RequestAnimationFrame(rafQueue, "loop")
  /\ lastRan' = "none"
  /\ UNCHANGED <<player, charKind, moveKey, frameRun>>
  /\ UNCHANGED <<storeVars, bodies, orphans, physicsBodyRef, suppress, playPc, histVars>>
  /\ UNCHANGED <<routerVars, inspVars, fnVars, editVars, regVars>>

\* stop() on the character, followed by the cleanup of the controller's effect.
\* stop() removes the body and restores the position of a Mesh only.
CharStop ==
  /\ isPlaying
  /\ frameRun = <<>>
  /\ isPlaying' = FALSE
  /\ isPaused' = FALSE
  /\ simEnabled' = FALSE
  /\ charBody' = IF charKind = "Mesh" THEN NoBody ELSE charBody
  /\ player' = IF charKind = "Mesh" THEN CharStart ELSE player
  /\ ctrlActive' = FALSE
  /\ ctrlBody' = FALSE
  /\ heldBody' = NoBody
  /\ moveKey' = FALSE
  /\ rafQueue' = CancelAnimationFrame(rafQueue, "loop")
  /\ UNCHANGED <<charKind, cameraRef, retryPending, frameRun, lastRan>>
  /\ UNCHANGED <<storeVars, bodies, orphans, physicsBodyRef, suppress, playPc, histVars>>
  /\ UNCHANGED <<routerVars, inspVars, fnVars, editVars, regVars>>

\* pause() / resume() clicked between two frames.
CharPause == frameRun = <<>> /\ isPlaying /\ Pause

CharResume == frameRun = <<>> /\ isPlaying /\ Resume

\* updatePhysicsProperties on a character that has no body (the inspector's
\* auto-create): the body is built at the object's position, without offset.
CharAutoCreate ==
  /\ frameRun = <<>>
  /\ charBody = NoBody
  /\ charBody' = CharBodyAt(player, FALSE, 0)
  /\ UNCHANGED <<player, charKind, ctrlActive, cameraRef, ctrlBody, retryPending,
                 heldBody, rafQueue, frameRun, moveKey, lastRan>>
  /\ UNCHANGED <<vars, routerVars, inspVars, fnVars, editVars, regVars>>

\* The callback of the controller's setTimeout(..., 100).
RetryTimeout ==
  /\ frameRun = <<>>
  /\ retryPending
  /\ retryPending' = FALSE
  /\ ctrlBody' = IF charBody # NoBody THEN TRUE ELSE ctrlBody
  /\ heldBody' = IF charBody # NoBody THEN NoBody ELSE heldBody
  /\ UNCHANGED <<player, charKind, charBody, ctrlActive, cameraRef, rafQueue,
                 frameRun, moveKey, lastRan>>
  /\ UNCHANGED <<vars, routerVars, inspVars, fnVars, editVars, regVars>>

\* onKeyDown / onKeyUp for a movement key while the listeners are attached.
KeyEvent(down) ==
  /\ frameRun = <<>>
  /\ ctrlActive
  /\ moveKey' = down
  /\ UNCHANGED <<player, charKind, charBody, ctrlActive, cameraRef, ctrlBody,
                 retryPending, heldBody, rafQueue, frameRun, lastRan>>
  /\ UNCHANGED <<vars, routerVars, inspVars, fnVars, editVars, regVars>>

\* The browser starts a frame: the registered callbacks will run in order.
BeginFrame ==
  /\ frameRun = <<>>
  /\ rafQueue # <<>>
  /\ frameRun' = rafQueue
  /\ rafQueue' = <<>>
  /\ UNCHANGED <<player, charKind, charBody, ctrlActive, cameraRef, ctrlBody,
                 retryPending, heldBody, moveKey, lastRan>>
  /\ UNCHANGED <<vars, routerVars, inspVars, fnVars, editVars, regVars>>

\* animate() of the viewport: registers itself again, then steps the physics
\* world if a session is playing and the simulator is enabled.
RunAnimate ==
  /\ frameRun # <<>>
  /\ Head(frameRun) = "animate"
  /\ frameRun' = Tail(frameRun)
  /\ rafQueue' = RequestAnimationFrame(rafQueue, "animate")
  /\ IF isPlaying /\ simEnabled
       THEN /\ IF charBody = NoBody
                 THEN UNCHANGED <<charBody, player>>
                 ELSE \E nb \in CharWorldStep(charBody) :
                        /\ charBody' = nb
                        /\ player' = CharWriteBack(nb, player)
            /\ lastRan' = "step"
       ELSE UNCHANGED <<charBody, player, lastRan>>
  /\ UNCHANGED <<charKind, ctrlActive, cameraRef, ctrlBody, retryPending, heldBody, moveKey>>
  /\ UNCHANGED <<vars, routerVars, inspVars, fnVars, editVars, regVars>>

\* An update that leaves the body's horizontal position and velocity alone.
UpdateWithBodyNoSync(p) ==
  LET b == [charBody EXCEPT !.y = IF charBody.hasOffset THEN p.y + CapsuleOffset ELSE @]
  IN /\ b.y <= MaxCharY
     /\ charBody' = b
     /\ player' = [x |-> p.x, y |-> IF b.hasOffset THEN b.y - CapsuleOffset ELSE b.y]

\* update(delta) of the controller with an adopted body: the body follows the
\* character horizontally, is put offset.y above it when it has an offset, and
\* the character takes its height from the body.  p: the character after the
\* horizontal movement.
UpdateWithBody(p) ==
  LET b == [charBody EXCEPT !.x = p.x,
                            !.y = IF charBody.hasOffset THEN p.y + CapsuleOffset ELSE @,
                            !.vx = 0]
  IN /\ b.y <= MaxCharY
     /\ charBody' = b
     /\ player' = [x |-> p.x, y |-> IF b.hasOffset THEN b.y - CapsuleOffset ELSE b.y]

\* update(delta) without a body: the controller's own gravity, down to y = 0
\* or the ground found by the ray cast.
UpdateFallback(p) ==
  /\ \E y2 \in {p.y, Max(p.y - 1, 0)} : player' = [x |-> p.x, y |-> y2]
  /\ UNCHANGED charBody

\* update(delta) when the adopted body is no longer the registered one: the
\* controller drives the body it holds, which the world does not step any more.
UpdateWithHeld(p) ==
  LET b == [heldBody EXCEPT !.x = p.x,
                            !.y = IF heldBody.hasOffset THEN p.y + CapsuleOffset ELSE @,
                            !.vx = 0]
  IN /\ b.y <= MaxCharY
     /\ heldBody' = b
     /\ player' = [x |-> p.x, y |-> IF b.hasOffset THEN b.y - CapsuleOffset ELSE b.y]
     /\ UNCHANGED charBody

\* loop() of the controller: update(dt), then it registers itself again.
RunLoop ==
  /\ frameRun # <<>>
  /\ Head(frameRun) = "loop"
  /\ frameRun' = Tail(frameRun)
  /\ rafQueue' = RequestAnimationFrame(rafQueue, "loop")
  /\ lastRan' = "tick"
  /\ IF cameraRef
       THEN \E dx \in IF moveKey THEN {-1, 1} ELSE {0} :
              /\ player.x + dx \in 0..MaxCharX
              /\ IF ctrlBody /\ heldBody # NoBody
                   THEN UpdateWithHeld([player EXCEPT !.x = @ + dx])
                   ELSE /\ IF ctrlBody
                             THEN UpdateWithBody([player EXCEPT !.x = @ + dx])
                             ELSE UpdateFallback([player EXCEPT !.x = @ + dx])
                        /\ UNCHANGED heldBody
       ELSE UNCHANGED <<player, charBody, heldBody>>
  /\ UNCHANGED <<charKind, ctrlActive, cameraRef, ctrlBody, retryPending, moveKey>>
  /\ UNCHANGED <<vars, routerVars, inspVars, fnVars, editVars, regVars>>

\* handlePhysicsChange of the inspector on a character that has a body:
\* updatePhysicsProperties removes the body and, unless physics was switched
\* off, registers a new one at the object's position.  A controller that had
\* adopted the removed body keeps holding it.
CharUpdatePhysics(enabled) ==
  /\ frameRun = <<>>
  /\ charBody # NoBody
  /\ charBody' = IF enabled THEN CharBodyAt(player, FALSE, 0) ELSE NoBody
  /\ heldBody' = IF ctrlBody /\ heldBody = NoBody THEN charBody ELSE heldBody
  /\ UNCHANGED <<player, charKind, ctrlActive, cameraRef, ctrlBody, retryPending,
                 rafQueue, frameRun, moveKey, lastRan>>
  /\ UNCHANGED <<vars, routerVars, inspVars, fnVars, editVars, regVars>>

CharNext ==
  \/ \E auto \in BOOLEAN, ox \in 0..1, cam \in BOOLEAN : CharPlay(auto, ox, cam)
  \/ CharStop
  \/ CharPause
  \/ CharResume
  \/ CharAutoCreate
  \/ RetryTimeout
  \/ \E down \in BOOLEAN : KeyEvent(down)
  \/ BeginFrame
  \/ RunAnimate
  \/ RunLoop

\* ----- contact routing ------------------------------------------------------------
\* setupCollisionDetection of PhysicsWorld: the handlers of the simulator's
\* beginContact / endContact events and the two callback sets.  Two objects
\* stand for a contact pair: "zone", which can be given any kind of body, and
\* "crate", an ordinary dynamic box.  The simulator reports a contact only for
\* a pair with a DYNAMIC body (static and kinematic bodies are not tested
\* against each other), and an end of contact at any later step, also after a
\* body of the pair has left the world.

MaxBodyId == 3

RObjs == {"zone", "crate"}
BodyTypes == {"box", "platform", "solidPlatform"}
Listeners == {"good", "bad"}
NoContact == [open |-> FALSE]
NoEvent == [kind |-> "none"]
NoNotifications == [platform |-> {}, audio |-> FALSE]
NothingInvoked == [invoked |-> {}, escaped |-> FALSE]

\* A registered callback that throws when it is called.
Throws(l) == l = "bad"

Range(q) == {q[i] : i \in DOMAIN q}

\* Set.add / Set.delete on a callback set (a Set iterates in insertion order).
SetAdd(q, l) == IF l \in Range(q) THEN q ELSE Append(q, l)

SetDelete(q, l) == SelectSeq(q, LAMBDA c : c # l)

\* The body addBody builds from options.type and options.isTrigger: its
\* simulator type, its collisionResponse flag and the userData tags the
\* handlers read.  The solid-platform block runs last and replaces userData.
RouterBody(id, type, isTrigger) ==
  [id |-> id,
   type |-> type,
   isTrigger |-> isTrigger,
   cannonType |-> IF type = "solidPlatform" THEN "STATIC"
                  ELSE IF type = "platform" \/ isTrigger THEN "KINEMATIC"
                  ELSE "DYNAMIC",
   collisionResponse |-> ~(type = "platform" \/ isTrigger),
   isPlatform |-> type = "platform",
   isSolidPlatform |-> type = "solidPlatform"]

\* The forEach over this.bodies in both handlers: the event's body is the
\* body of a registry entry.  A body that was removed or replaced matches none.
Found(b) == b # NoBody /\ \E o \in RObjs : registered[o] = b

\* beginContact that notifies 'land' without the collision audio.
BeginNotificationsLandOnly(a, b) ==
  IF a.isPlatform \/ b.isPlatform
    THEN [platform |-> {"enter"}, audio |-> FALSE]
    ELSE IF a.isSolidPlatform \/ b.isSolidPlatform
           THEN [platform |-> {"land"}, audio |-> FALSE]
           ELSE [platform |-> {}, audio |-> TRUE]

\* beginContact handler, both objects found: platform event types passed to
\* triggerPlatformEvent and whether triggerCollisionAudio is called.
BeginNotifications(a, b) ==
  IF a.isPlatform \/ b.isPlatform
    THEN [platform |-> {"enter"}, audio |-> FALSE]
    ELSE IF a.isSolidPlatform \/ b.isSolidPlatform
           THEN [platform |-> {"land"}, audio |-> TRUE]
           ELSE [platform |-> {}, audio |-> TRUE]

\* endContact that also notifies 'exit' for solid platforms.
EndNotificationsAnyPlatform(a, b) ==
  IF a.isPlatform \/ b.isPlatform \/ a.isSolidPlatform \/ b.isSolidPlatform
    THEN [platform |-> {"exit"}, audio |-> FALSE]
    ELSE NoNotifications

\* endContact handler, both objects found.
EndNotifications(a, b) ==
  IF a.isPlatform \/ b.isPlatform
    THEN [platform |-> {"exit"}, audio |-> FALSE]
    ELSE NoNotifications

RECURSIVE InvokedUntilThrow(_, _)
InvokedUntilThrow(cbs, i) ==
  IF i > Len(cbs) THEN {}
  ELSE IF Throws(cbs[i]) THEN {cbs[i]}
  ELSE {cbs[i]} \cup InvokedUntilThrow(cbs, i + 1)

\* A forEach without try/catch: the first throwing callback ends it.
NotifyUntilThrow(cbs) ==
  [invoked |-> InvokedUntilThrow(cbs, 1), escaped |-> \E i \in DOMAIN cbs : Throws(cbs[i])]

RECURSIVE InvokedFrom(_, _)
InvokedFrom(cbs, i) ==
  IF i > Len(cbs) THEN {} ELSE {cbs[i]} \cup InvokedFrom(cbs, i + 1)

\* triggerCollisionAudio / triggerPlatformEvent: forEach over the callback set,
\* each call in its own try/catch.
NotifyAll(cbs) == [invoked |-> InvokedFrom(cbs, 1), escaped |-> FALSE]

\* What a handler run dispatches for notifications n: the platform event
\* first, then the collision audio (not reached if an exception escaped).
Dispatch(n) ==
  LET p == IF n.platform # {} THEN NotifyAll(platformCallbacks) ELSE NothingInvoked
      a == IF n.audio /\ ~p.escaped THEN NotifyAll(audioCallbacks) ELSE NothingInvoked
  IN [platform |-> n.platform,
      audio |-> n.audio /\ ~p.escaped,
      invokedP |-> p.invoked,
      invokedA |-> a.invoked,
      escaped |-> p.escaped \/ a.escaped]

EventRecord(k, a, b, d) ==
  [kind |-> k, a |-> a, b |-> b, found |-> Found(a) /\ Found(b),
   platform |-> d.platform, audio |-> d.audio,
   invokedP |-> d.invokedP, invokedA |-> d.invokedA, escaped |-> d.escaped]

RouterInit ==
  /\ registered = [o \in RObjs |-> NoBody]
  /\ nextId = 1
  /\ contact = NoContact
  /\ audioCallbacks = <<>>
  /\ platformCallbacks = <<>>
  /\ lastEvent = NoEvent
  /\ pendingEnter = FALSE

\* removeBody(o) followed by addBody(o, options), as updatePhysicsProperties
\* and play() build a body.
RouterRebuild(o, type, isTrigger) ==
  /\ nextId <= MaxBodyId
  /\ o = "crate" => (type = "box" /\ ~isTrigger)
  /\ registered' = [registered EXCEPT ![o] = RouterBody(nextId, type, isTrigger)]
  /\ nextId' = nextId + 1
  /\ lastEvent' = NoEvent
  /\ UNCHANGED <<contact, audioCallbacks, platformCallbacks, pendingEnter>>
  /\ UNCHANGED <<vars, charVars, inspVars, fnVars, editVars, regVars>>

\* PhysicsWorld.removeBody(o)
RouterRemoveBody(o) ==
  /\ registered[o] # NoBody
  /\ registered' = [registered EXCEPT ![o] = NoBody]
  /\ lastEvent' = NoEvent
  /\ UNCHANGED <<nextId, contact, audioCallbacks, platformCallbacks, pendingEnter>>
  /\ UNCHANGED <<vars, charVars, inspVars, fnVars, editVars, regVars>>

\* stop(): removeBody for every object of the pair.
RouterStop ==
  /\ \E o \in RObjs : registered[o] # NoBody
  /\ registered' = [o \in RObjs |-> NoBody]
  /\ lastEvent' = NoEvent
  /\ UNCHANGED <<nextId, contact, audioCallbacks, platformCallbacks, pendingEnter>>
  /\ UNCHANGED <<vars, charVars, inspVars, fnVars, editVars, regVars>>

\* addAudioCallback / removeAudioCallback
AudioCallback(add, l) ==
  /\ audioCallbacks' = IF add THEN SetAdd(audioCallbacks, l) ELSE SetDelete(audioCallbacks, l)
  /\ audioCallbacks' # audioCallbacks
  /\ lastEvent' = NoEvent
  /\ UNCHANGED <<registered, nextId, contact, platformCallbacks, pendingEnter>>
  /\ UNCHANGED <<vars, charVars, inspVars, fnVars, editVars, regVars>>

\* addPlatformCallback / removePlatformCallback
PlatformCallback(add, l) ==
  /\ platformCallbacks' = IF add THEN SetAdd(platformCallbacks, l)
                          ELSE SetDelete(platformCallbacks, l)
  /\ platformCallbacks' # platformCallbacks
  /\ lastEvent' = NoEvent
  /\ UNCHANGED <<registered, nextId, contact, audioCallbacks, pendingEnter>>
  /\ UNCHANGED <<vars, charVars, inspVars, fnVars, editVars, regVars>>

\* The simulator reports that the bodies of oa and ob started to overlap and
\* the beginContact handler runs with bodyA, bodyB.
BeginContactEvent(oa, ob) ==
  /\ oa # ob
  /\ ~contact.open
  /\ registered[oa] # NoBody /\ registered[ob] # NoBody
  /\ "DYNAMIC" \in {registered[oa].cannonType, registered[ob].cannonType}
  /\ LET a == registered[oa]
         b == registered[ob]
         d == Dispatch(IF Found(a) /\ Found(b) THEN BeginNotifications(a, b)
                       ELSE NoNotifications)
     IN /\ contact' = [open |-> TRUE, a |-> a, b |-> b]
        /\ lastEvent' = EventRecord("begin", a, b, d)
        /\ pendingEnter' = IF "enter" \in d.platform /\ d.invokedP # {}
                             THEN TRUE ELSE pendingEnter
  /\ UNCHANGED <<registered, nextId, audioCallbacks, platformCallbacks>>
  /\ UNCHANGED <<vars, charVars, inspVars, fnVars, editVars, regVars>>

\* The simulator reports the end of the open contact and the endContact
\* handler runs.
EndContactEvent ==
  /\ contact.open
  /\ LET a == contact.a
         b == contact.b
         d == Dispatch(IF Found(a) /\ Found(b) THEN EndNotifications(a, b)
                       ELSE NoNotifications)
     IN /\ lastEvent' = EventRecord("end", a, b, d)
        /\ pendingEnter' = IF "exit" \in d.platform THEN FALSE ELSE pendingEnter
  /\ contact' = NoContact
  /\ UNCHANGED <<registered, nextId, audioCallbacks, platformCallbacks>>
  /\ UNCHANGED <<vars, charVars, inspVars, fnVars, editVars, regVars>>

RouterNext ==
  \/ \E o \in RObjs, type \in BodyTypes, isTrigger \in BOOLEAN : RouterRebuild(o, type, isTrigger)
  \/ \E o \in RObjs : RouterRemoveBody(o)
  \/ RouterStop
  \/ \E add \in BOOLEAN, l \in Listeners : AudioCallback(add, l)
  \/ \E add \in BOOLEAN, l \in Listeners : PlatformCallback(add, l)
  \/ \E oa, ob \in RObjs : BeginContactEvent(oa, ob)
  \/ EndContactEvent

\* ----- physics inspector -----------------------------------------------------------
\* PhysicsInspector (AudioControls.jsx) on one selected object: its local
\* `physics` state and the config updatePhysicsProperties stores.  The edits are
\* the ones its controls can send: the three checkboxes, the mass slider
\* (values from 0.1 up, disabled while Static is checked), the auto-create
\* button, and selecting the object again.  Mass and size are small integers.

MaxMass == 3
MaxSize == 3

\* `newPhysics.mass = 1` when an object of mass 0 stops being static.
DefaultMass == 1

\* The configs objects are created with: mass 1, or mass 0 for the platform
\* prefabs; none of them is static.
InitialConfigs ==
  {[enabled |-> e, isStatic |-> FALSE, isTrigger |-> FALSE, mass |-> m, size |-> 1] :
     e \in BOOLEAN, m \in {0, DefaultMass}}

\* An edit of isStatic that leaves the mass as it is.
HandlePhysicsChangeKeepMass(p, property, value, bbox) ==
  CASE property = "enabled" -> [p EXCEPT !.enabled = value, !.size = IF value THEN bbox ELSE @]
    [] property = "isStatic" /\ value -> [p EXCEPT !.isStatic = TRUE, !.enabled = TRUE]
    [] property = "isStatic" /\ ~value -> [p EXCEPT !.isStatic = FALSE]
    [] property = "isTrigger" -> [p EXCEPT !.isTrigger = value]
    [] property = "mass" -> [p EXCEPT !.mass = value]

\* newPhysics of handlePhysicsChange(property, value); bbox is the size of the
\* selected object's bounding box.
HandlePhysicsChange(p, property, value, bbox) ==
  CASE property = "enabled" -> [p EXCEPT !.enabled = value, !.size = IF value THEN bbox ELSE @]
    [] property = "isStatic" /\ value ->
         [p EXCEPT !.isStatic = TRUE, !.mass = 0, !.enabled = TRUE]
    [] property = "isStatic" /\ ~value ->
         [p EXCEPT !.isStatic = FALSE, !.mass = IF @ = 0 THEN DefaultMass ELSE @]
    [] property = "isTrigger" -> [p EXCEPT !.isTrigger = value]
    [] property = "mass" -> [p EXCEPT !.mass = value]

\* objectData.physics as updatePhysicsProperties stores it.
StoredConfig(props, auto) ==
  [enabled |-> props.enabled, isStatic |-> props.isStatic, isTrigger |-> props.isTrigger,
   mass |-> props.mass, size |-> props.size, autoCreate |-> auto]

\* The inspector's state after it loaded the stored config.
LoadPhysics(st) ==
  [enabled |-> st.enabled, isStatic |-> st.isStatic, isTrigger |-> st.isTrigger,
   mass |-> st.mass, size |-> st.size]

InspInit(c) ==
  /\ inspStored = StoredConfig(c, FALSE)
  /\ inspPhysics = c

\* A checkbox of the inspector is toggled.
InspectorToggle(property, bbox) ==
  /\ property \in {"enabled", "isStatic", "isTrigger"}
  /\ LET new == HandlePhysicsChange(inspPhysics, property, ~inspPhysics[property], bbox)
     IN /\ inspPhysics' = new
        /\ inspStored' = StoredConfig(new, FALSE)
  /\ UNCHANGED <<vars, charVars, routerVars, fnVars, editVars, regVars>>

\* The mass slider is moved; it is disabled while Static is checked.
InspectorMass(value) ==
  /\ ~inspPhysics.isStatic
  /\ LET new == HandlePhysicsChange(inspPhysics, "mass", value, inspPhysics.size)
     IN /\ inspPhysics' = new
        /\ inspStored' = StoredConfig(new, FALSE)
  /\ UNCHANGED <<vars, charVars, routerVars, fnVars, editVars, regVars>>

\* handleAutoCreate: stores the local state with enabled and autoCreate set.
InspectorAutoCreate ==
  /\ inspStored' = StoredConfig([inspPhysics EXCEPT !.enabled = TRUE], TRUE)
  /\ UNCHANGED inspPhysics
  /\ UNCHANGED <<vars, charVars, routerVars, fnVars, editVars, regVars>>

\* The object is selected again: the load effect copies the stored config.
InspectorSelect ==
  /\ inspPhysics' = LoadPhysics(inspStored)
  /\ UNCHANGED inspStored
  /\ UNCHANGED <<vars, charVars, routerVars, fnVars, editVars, regVars>>

InspNext ==
  \/ \E property \in {"enabled", "isStatic", "isTrigger"}, bbox \in 1..MaxSize :
       InspectorToggle(property, bbox)
  \/ \E value \in 1..MaxMass : InspectorMass(value)
  \/ InspectorAutoCreate
  \/ InspectorSelect

\* ----- collision-frame editors ------------------------------------------------------
\* The frame editors of PhysicsInspector, updateObjectData's suppression of
\* collisionFrames writes, and play() / stop() as far as they set the
\* suppression flag and isPlaying.  A frame is its autoGenerated mark, its
\* size and its radius, each one value of a small grid.

MaxFrameValue == 1

FrameValues == 0..MaxFrameValue

\* The selection effect's copy of a stored frame: autoGenerated is not copied.
LoadedFrame(f) == [f EXCEPT !.autoGenerated = FALSE]

LoadedFrames(q) == [i \in 1..Len(q) |-> LoadedFrame(q[i])]

\* objectData.collisionFrames after updateObjectData(uuid, {collisionFrames: new})
StoreFrames(new) == IF edSuppress THEN storedFrames ELSE new

\* autoGenerateFrame's frame for a bounding box of size b
AutoFrame(b) == [autoGenerated |-> TRUE, size |-> b, radius |-> 0]

\* addManualFrame's frame
ManualFrame == [autoGenerated |-> FALSE, size |-> 1, radius |-> 0]

\* collisionFrames.filter(f => f.id !== frameId) for the i-th frame
WithoutFrame(q, i) == [j \in 1..(Len(q) - 1) |-> IF j < i THEN q[j] ELSE q[j + 1]]

\* The poll's updatedFrames: every autoGenerated frame takes the size b.
SyncedFrames(q, b) ==
  [i \in 1..Len(q) |-> IF q[i].autoGenerated THEN [q[i] EXCEPT !.size = b] ELSE q[i]]

EditInit ==
  /\ edScene = FALSE
  /\ edSuppress = FALSE
  /\ edPlaying = FALSE
  /\ edSelected = FALSE
  /\ edGround \in BOOLEAN
  /\ storedFrames = <<>>
  /\ localFrames = <<>>

EditIdle == EditInit /\ edGround = FALSE

EditOthers == UNCHANGED <<vars, charVars, routerVars, inspVars, fnVars, regVars>>

\* setScene(scene): the viewport has mounted.
SetScene ==
  /\ ~edScene
  /\ edScene' = TRUE
  /\ UNCHANGED <<edSuppress, edPlaying, edSelected, edGround, storedFrames, localFrames>>
  /\ EditOthers

\* play(): suppression on; with a scene the bodies are built, suppression is
\* switched off and isPlaying set; without a scene nothing more happens.
EditPlay ==
  /\ IF edScene
       THEN edSuppress' = FALSE /\ edPlaying' = TRUE
       ELSE edSuppress' = TRUE /\ UNCHANGED edPlaying
  /\ UNCHANGED <<edScene, edSelected, edGround, storedFrames, localFrames>>
  /\ EditOthers

\* stop()
EditStop ==
  /\ edPlaying' = FALSE
  /\ UNCHANGED <<edScene, edSuppress, edSelected, edGround, storedFrames, localFrames>>
  /\ EditOthers

\* selectObject(object) and the inspector's load effect: the stored frames are
\* loaded, and cleared when the object is ground-like.
SelectObject ==
  /\ edScene
  /\ ~edSelected
  /\ edSelected' = TRUE
  /\ IF edGround /\ Len(storedFrames) > 0
       THEN /\ localFrames' = <<>>
            /\ storedFrames' = StoreFrames(<<>>)
       ELSE /\ localFrames' = LoadedFrames(storedFrames)
            /\ UNCHANGED storedFrames
  /\ UNCHANGED <<edScene, edSuppress, edPlaying, edGround>>
  /\ EditOthers

\* selectObject(null)
Deselect ==
  /\ edSelected
  /\ edSelected' = FALSE
  /\ UNCHANGED <<edScene, edSuppress, edPlaying, edGround, storedFrames, localFrames>>
  /\ EditOthers

\* autoGenerateFrame, for a bounding box of size b
AutoGenerateFrame(b) ==
  /\ edSelected
  /\ IF edPlaying \/ Len(localFrames) > 0
       THEN UNCHANGED <<storedFrames, localFrames>>
       ELSE /\ localFrames' = <<AutoFrame(b)>>
            /\ storedFrames' = StoreFrames(<<AutoFrame(b)>>)
  /\ UNCHANGED <<edScene, edSuppress, edPlaying, edSelected, edGround>>
  /\ EditOthers

\* addManualFrame(type)
AddManualFrame ==
  /\ edSelected
  /\ Len(localFrames) < MaxFrames
  /\ IF edPlaying
       THEN UNCHANGED <<storedFrames, localFrames>>
       ELSE /\ localFrames' = Append(localFrames, ManualFrame)
            /\ storedFrames' = StoreFrames(Append(localFrames, ManualFrame))
  /\ UNCHANGED <<edScene, edSuppress, edPlaying, edSelected, edGround>>
  /\ EditOthers

\* updateFrame(frameId, 'size', axis, value) on the i-th frame
UpdateFrame(i, value) ==
  /\ edSelected
  /\ i \in 1..Len(localFrames)
  /\ IF edPlaying
       THEN UNCHANGED <<storedFrames, localFrames>>
       ELSE /\ localFrames' = [localFrames EXCEPT ![i].size = value]
            /\ storedFrames' = StoreFrames([localFrames EXCEPT ![i].size = value])
  /\ UNCHANGED <<edScene, edSuppress, edPlaying, edSelected, edGround>>
  /\ EditOthers

\* updateFrameRadius(frameId, value) on the i-th frame
UpdateFrameRadius(i, value) ==
  /\ edSelected
  /\ i \in 1..Len(localFrames)
  /\ IF edPlaying
       THEN UNCHANGED <<storedFrames, localFrames>>
       ELSE /\ localFrames' = [localFrames EXCEPT ![i].radius = value]
            /\ storedFrames' = StoreFrames([localFrames EXCEPT ![i].radius = value])
  /\ UNCHANGED <<edScene, edSuppress, edPlaying, edSelected, edGround>>
  /\ EditOthers

\* deleteFrame(frameId) on the i-th frame
DeleteFrame(i) ==
  /\ edSelected
  /\ i \in 1..Len(localFrames)
  /\ IF edPlaying
       THEN UNCHANGED <<storedFrames, localFrames>>
       ELSE /\ localFrames' = WithoutFrame(localFrames, i)
            /\ storedFrames' = StoreFrames(WithoutFrame(localFrames, i))
  /\ UNCHANGED <<edScene, edSuppress, edPlaying, edSelected, edGround>>
  /\ EditOthers

\* A tick of the bounding-box poll, which runs while an object is selected
\* and isPlaying is false; b is the size it computes.
AutoSyncPoll(b) ==
  /\ edSelected
  /\ ~edPlaying
  /\ IF \E i \in 1..Len(localFrames) : localFrames[i].autoGenerated
       THEN /\ localFrames' = SyncedFrames(localFrames, b)
            /\ storedFrames' = StoreFrames(SyncedFrames(localFrames, b))
       ELSE UNCHANGED <<storedFrames, localFrames>>
  /\ UNCHANGED <<edScene, edSuppress, edPlaying, edSelected, edGround>>
  /\ EditOthers

EditNext ==
  \/ SetScene
  \/ EditPlay
  \/ EditStop
  \/ SelectObject
  \/ Deselect
  \/ \E b \in FrameValues : AutoGenerateFrame(b)
  \/ AddManualFrame
  \/ \E i \in 1..MaxFrames, value \in FrameValues : UpdateFrame(i, value)
  \/ \E i \in 1..MaxFrames, value \in FrameValues : UpdateFrameRadius(i, value)
  \/ \E i \in 1..MaxFrames : DeleteFrame(i)
  \/ \E b \in FrameValues : AutoSyncPoll(b)

\* ----- registry and back-references --------------------------------------------------
\* addBody, removeBody and clear of PhysicsWorld as they keep the registry, the
\* simulator world and userData.physicsBody.

RegObjs == {"zone", "crate", "cube"}

RegInit ==
  /\ regBodies = [o \in RegObjs |-> 0]
  /\ regBackRef = [o \in RegObjs |-> 0]
  /\ regWorld = {}
  /\ regNextId = 1

RegOthers == UNCHANGED <<vars, charVars, routerVars, inspVars, fnVars, editVars>>

\* addBody(threeObject, bodyOptions): a new body is added to the world,
\* registered and attached; nothing is removed.
RegAddBody(o) ==
  /\ regNextId <= MaxBodyId
  /\ regWorld' = regWorld \cup {regNextId}
  /\ regBodies' = [regBodies EXCEPT ![o] = regNextId]
  /\ regBackRef' = [regBackRef EXCEPT ![o] = regNextId]
  /\ regNextId' = regNextId + 1
  /\ RegOthers

\* removeBody(threeObject)
RegRemoveBody(o) ==
  /\ IF regBodies[o] # 0
       THEN /\ regWorld' = regWorld \ {regBodies[o]}
            /\ regBodies' = [regBodies EXCEPT ![o] = 0]
            /\ regBackRef' = [regBackRef EXCEPT ![o] = 0]
       ELSE UNCHANGED <<regWorld, regBodies, regBackRef>>
  /\ UNCHANGED regNextId
  /\ RegOthers

\* clear()
RegClear ==
  /\ regWorld' = regWorld \ {regBodies[o] : o \in RegObjs}
  /\ regBodies' = [o \in RegObjs |-> 0]
  /\ UNCHANGED <<regBackRef, regNextId>>
  /\ RegOthers

RegNext ==
  \/ \E o \in RegObjs : RegAddBody(o)
  \/ \E o \in RegObjs : RegRemoveBody(o)
  \/ RegClear

\* ----- rotations -------------------------------------------------------------------
\* A quaternion stands for the rotation it encodes, kept as a 3x3 matrix; the
\* angles that occur are multiples of a quarter turn, so every entry is -1, 0
\* or 1 and composition is exact.  Angles are counted in quarter turns.

\* Math.PI, in quarter turns.
PI == 2

\* deg * Math.PI / 180
Radians(deg) == (deg * PI) \div 180

Cos(q) == CASE q % 4 = 0 -> 1 [] q % 4 = 1 -> 0 [] q % 4 = 2 -> -1 [] q % 4 = 3 -> 0

Sin(q) == CASE q % 4 = 0 -> 0 [] q % 4 = 1 -> 1 [] q % 4 = 2 -> 0 [] q % 4 = 3 -> -1

\* new CANNON.Quaternion(), and quaternion.set(0, 0, 0, 1)
IdentityQuat == <<<<1, 0, 0>>, <<0, 1, 0>>, <<0, 0, 1>>>>

\* quaternion.setFromAxisAngle(axis, angle) for the three unit axes.
SetFromAxisAngle(axis, q) ==
  CASE axis = "x" -> <<<<1, 0, 0>>, <<0, Cos(q), -Sin(q)>>, <<0, Sin(q), Cos(q)>>>>
    [] axis = "y" -> <<<<Cos(q), 0, Sin(q)>>, <<0, 1, 0>>, <<-Sin(q), 0, Cos(q)>>>>
    [] axis = "z" -> <<<<Cos(q), -Sin(q), 0>>, <<Sin(q), Cos(q), 0>>, <<0, 0, 1>>>>

\* a.mult(b): the product as a new quaternion; the receiver a is not changed.
Mult(a, b) ==
  LET Cell(i, j) == a[i][1] * b[1][j] + a[i][2] * b[2][j] + a[i][3] * b[3][j]
      Row(i) == <<Cell(i, 1), Cell(i, 2), Cell(i, 3)>>
  IN <<Row(1), Row(2), Row(3)>>

\* Angles in degrees, as the editor stores them.
Degrees == {0, 90}

Rotation == [x : Degrees, y : Degrees, z : Degrees]

NoRotation == [absent |-> TRUE]

\* ----- body construction ------------------------------------------------------------
\* PhysicsWorld.addBody in detail, for one object and one stored config, and the
\* options each caller builds from the config.  Position and size are left
\* out: the body is its mass, kind, shape and orientation.

MaxBodyMass == 2

NoBuilt == [kind |-> "none"]

\* What the geometry of the object gives when a hull or a triangle mesh is
\* built from it: no geometry is found, the constructor throws, or the
\* geometry built comes without or with an index.
Hulls == {"none", "throws", "noIndex", "indexed"}

\* Body types a stored config or a detection names; "other" is any name the
\* switch of addBody does not know.
StoredTypes == {"box", "trimesh", "convex", "platform", "solidPlatform", "other"}

DetectedTypes == {"box", "trimesh", "convex"}

BuildCfgs == [bodyType : StoredTypes, mass : 0..MaxBodyMass, isStatic : BOOLEAN,
              isTrigger : BOOLEAN, autoCreate : {"none", "convex", "trimesh"},
              frames : 0..MaxFrames]

\* threeObject.quaternion of the objects considered: upright, or laid flat as
\* the plane primitive is.
ObjQuats == {IdentityQuat, SetFromAxisAngle("x", 3)}

\* skinned: the traversal of the object finds a child with isSkinnedMesh.
BuildObjs == [kind : Kinds, ground : BOOLEAN, quaternion : ObjQuats, hull : Hulls,
              skinned : BOOLEAN]

\* a || b on numbers
OrElse(a, b) == IF a = 0 THEN b ELSE a

\* bodyOptions as the callers write them; keys a caller leaves out take the
\* defaults of addBody's destructuring.
BodyOptions(type, mass, isStatic, isTrigger, frames) ==
  [type |-> type, mass |-> mass, isStatic |-> isStatic, isTrigger |-> isTrigger,
   frames |-> frames, frameRotation |-> NoRotation]

\* The shape the switch of addBody leaves in `shape`; "none" when it leaves
\* the variable undefined.
ShapeOf(obj, o) ==
  CASE o.type = "trimesh" ->
         IF obj.hull \in {"noIndex", "indexed"} THEN "trimesh" ELSE "box"
    [] o.type = "convex" ->
         IF obj.hull = "indexed" THEN "convex"
         ELSE IF obj.hull = "noIndex" THEN "none"
         ELSE "box"
    [] OTHER -> "box"

\* The mass expression of the Body constructor call.
BodyMass(o) ==
  IF o.isStatic THEN 0
  ELSE IF o.type = "platform" THEN 0
  ELSE IF o.type = "solidPlatform" THEN 0
  ELSE o.mass

\* isGroundObject && isStatic ? identity : threeObject.quaternion, then the
\* manual frame rotation unless the object is ground-like.
BodyQuaternion(obj, o) ==
  LET base == IF obj.ground /\ o.isStatic THEN IdentityQuat ELSE obj.quaternion
  IN IF o.frameRotation # NoRotation /\ ~obj.ground
       THEN Mult(Mult(Mult(base, SetFromAxisAngle("x", Radians(o.frameRotation.x))),
                      SetFromAxisAngle("y", Radians(o.frameRotation.y))),
                 SetFromAxisAngle("z", Radians(o.frameRotation.z)))
       ELSE base

\* The body addBody creates, adds to the world and registers.
CreateBody(obj, o) ==
  [kind |-> BodyKind(o),
   type |-> o.type,
   mass |-> BodyMass(o),
   shape |-> ShapeOf(obj, o),
   children |-> IF o.type = "compound" THEN o.frames ELSE 0,
   quaternion |-> BodyQuaternion(obj, o)]

\* body.shapes.length: the shape given to the Body constructor, if any, and
\* one shape per addShape call of the loop over the frames.
ShapeCount(b) == (IF b.shape = "none" THEN 0 ELSE 1) + b.children

\* play(), Mesh branch with manual frames.
PlayCompoundOptions(cfg) ==
  BodyOptions("compound", IF cfg.isStatic THEN 0 ELSE OrElse(cfg.mass, 1),
              cfg.isStatic, FALSE, cfg.frames)

\* play(), autoCreate branches: the detected type, with trimesh replaced by
\* convex for a skinned Mesh and for every Group root.
PlayAutoOptions(cfg, k, detected, skinned) ==
  BodyOptions(IF detected = "trimesh" /\ (k = "Group" \/ skinned) THEN "convex" ELSE detected,
              IF cfg.isStatic THEN 0 ELSE OrElse(cfg.mass, 1), cfg.isStatic, FALSE, 0)

\* updatePhysicsProperties, either creating branch.
UpdateBodyOptions(cfg, skinned) ==
  LET requested == IF cfg.autoCreate # "none" THEN cfg.autoCreate ELSE cfg.bodyType
  IN BodyOptions(IF skinned /\ requested = "trimesh" THEN "convex" ELSE requested,
                 cfg.mass, cfg.isStatic, cfg.isTrigger, 0)

\* addObject and activateAllPhysicsBodies: type, mass and size only.
StoreBodyOptions(cfg) ==
  BodyOptions(cfg.bodyType, OrElse(cfg.mass, 1), FALSE, FALSE, 0)

BuildInit ==
  /\ buildCfg \in BuildCfgs
  /\ buildObj \in BuildObjs
  /\ built = NoBuilt
  /\ builtBy = "none"

\* One object and config on which nothing is built.
BuildIdle ==
  /\ buildCfg = [bodyType |-> "box", mass |-> 1, isStatic |-> FALSE, isTrigger |-> FALSE,
                 autoCreate |-> "none", frames |-> 0]
  /\ buildObj = [kind |-> "Mesh", ground |-> FALSE, quaternion |-> IdentityQuat,
                 hull |-> "indexed", skinned |-> FALSE]
  /\ built = NoBuilt
  /\ builtBy = "none"

\* play() for this object: the loop body, which removes the body before it
\* creates one, then activateAllPhysicsBodies for a Mesh left without a body.
BuildPlay(detected) ==
  LET compound == buildObj.kind = "Mesh" /\ buildCfg.frames > 0
      auto == buildCfg.frames = 0 /\ buildCfg.autoCreate # "none"
      viaStore == ~compound /\ ~auto /\ buildObj.kind = "Mesh" /\ built = NoBuilt
  IN /\ compound \/ auto \/ viaStore
     /\ built' = IF compound THEN CreateBody(buildObj, PlayCompoundOptions(buildCfg))
                 ELSE IF auto
                   THEN CreateBody(buildObj,
                                   PlayAutoOptions(buildCfg, buildObj.kind, detected, buildObj.skinned))
                 ELSE CreateBody(buildObj, StoreBodyOptions(buildCfg))
     /\ builtBy' = "play"
     /\ UNCHANGED <<buildCfg, buildObj, stepVars, frameVars, inferVars>>
     /\ UNCHANGED restVars

\* updatePhysicsProperties with the stored config (enabled): creates the body
\* or removes it and creates it again.
BuildUpdate ==
  /\ built' = CreateBody(buildObj, UpdateBodyOptions(buildCfg, buildObj.skinned))
  /\ builtBy' = "updatePhysicsProperties"
  /\ UNCHANGED <<buildCfg, buildObj, stepVars, frameVars, inferVars>>
  /\ UNCHANGED restVars

\* addObject of a Mesh whose metadata carries the config (enabled).
BuildAddObject ==
  /\ builtBy = "none"
  /\ buildObj.kind = "Mesh"
  /\ built' = CreateBody(buildObj, StoreBodyOptions(buildCfg))
  /\ builtBy' = "addObject"
  /\ UNCHANGED <<buildCfg, buildObj, stepVars, frameVars, inferVars>>
  /\ UNCHANGED restVars

\* activateAllPhysicsBodies: a Mesh without a body gets one.
BuildActivate ==
  /\ buildObj.kind = "Mesh"
  /\ built = NoBuilt
  /\ built' = CreateBody(buildObj, StoreBodyOptions(buildCfg))
  /\ builtBy' = "activateAllPhysicsBodies"
  /\ UNCHANGED <<buildCfg, buildObj, stepVars, frameVars, inferVars>>
  /\ UNCHANGED restVars

\* physicsWorld.removeBody(threeObject), as stop() and the disabling branch of
\* updatePhysicsProperties call it.
BuildRemove ==
  /\ built # NoBuilt
  /\ built' = NoBuilt
  /\ builtBy' = "removeBody"
  /\ UNCHANGED <<buildCfg, buildObj, stepVars, frameVars, inferVars>>
  /\ UNCHANGED restVars

BuildNext ==
  \/ \E detected \in DetectedTypes : BuildPlay(detected)
  \/ BuildUpdate
  \/ BuildAddObject
  \/ BuildActivate
  \/ BuildRemove

\* ----- time step --------------------------------------------------------------------
\* PhysicsWorld.step(deltaTime) and the code that calls it: the viewport's
\* animate(), the store action stepPhysics(deltaTime) and the timers of the
\* physics debugger.

MaxDelta == 3
MaxWorldTime == 8

\* 1/60 s and 1/30 s
SixtiethSecond == 1
ThirtiethSecond == 2

NoStep == [caller |-> "none"]

\* step(deltaTime): nothing when disabled, else world.step(deltaTime), which
\* advances the world by the time it is given.
StepAdvance(dt) == IF stepEnabled THEN dt ELSE 0

\* Math.min(delta || 1/60, 1/30) of animate()
ClampedDeltaTime(delta) ==
  LET deltaTime == OrElse(delta, SixtiethSecond)
  IN IF deltaTime <= ThirtiethSecond THEN deltaTime ELSE ThirtiethSecond

\* One call physicsWorld.step(dt) by the named caller.
StepCalled(caller, dt) ==
  /\ worldTime + StepAdvance(dt) <= MaxWorldTime
  /\ worldTime' = worldTime + StepAdvance(dt)
  /\ stepCall' = [caller |-> caller, dt |-> dt, ran |-> stepEnabled,
                  advanced |-> StepAdvance(dt)]
  /\ UNCHANGED <<stepPlaying, stepEnabled>>

StepInit ==
  /\ stepPlaying = FALSE
  /\ stepEnabled = FALSE
  /\ worldTime = 0
  /\ stepCall = NoStep

\* play() and stop(): isPlaying and the simulation switch together.
StepPlayStop ==
  /\ stepPlaying' = ~stepPlaying
  /\ stepEnabled' = ~stepPlaying
  /\ UNCHANGED <<worldTime, stepCall>>
  /\ UNCHANGED <<buildVars, frameVars, inferVars, restVars>>

\* enablePhysics / disablePhysics of the store and setEnabled of the debugger.
StepSetEnabled(on) ==
  /\ stepEnabled' = on
  /\ UNCHANGED <<stepPlaying, worldTime, stepCall>>
  /\ UNCHANGED <<buildVars, frameVars, inferVars, restVars>>

\* A frame of animate() while playing with the world enabled; delta is what
\* the clock measured since the frame before.
ViewportFrame(delta) ==
  /\ stepPlaying
  /\ stepEnabled
  /\ StepCalled("animate", ClampedDeltaTime(delta))
  /\ UNCHANGED <<buildVars, frameVars, inferVars, restVars>>

\* stepPhysics(deltaTime) of the store
StepPhysics(deltaTime) ==
  /\ StepCalled("stepPhysics", deltaTime)
  /\ UNCHANGED <<buildVars, frameVars, inferVars, restVars>>

\* physicsWorld.step(1/60) from a timer of the debugger's test
DebugStep ==
  /\ StepCalled("debug", SixtiethSecond)
  /\ UNCHANGED <<buildVars, frameVars, inferVars, restVars>>

StepNext ==
  \/ StepPlayStop
  \/ \E on \in BOOLEAN : StepSetEnabled(on)
  \/ \E delta \in 0..MaxDelta : ViewportFrame(delta)
  \/ \E deltaTime \in 1..MaxDelta : StepPhysics(deltaTime)
  \/ DebugStep

\* ----- child shapes of a compound body ----------------------------------------------
\* The loop of addBody over options.frames, for one frame.  Vectors are
\* triples <<x, y, z>>.

MaxFrameSize == 2
MaxScale == 2

\* 1 and 0.5 scene units
One == 2
Half == 1

FrameTypes == {"box", "sphere", "cylinder", "capsule", "mesh"}

Lengths == {One * n : n \in 1..MaxFrameSize}

\* Offsets of a frame: none, the one addManualFrame gives, and one off every axis.
FramePositions == {<<0, 0, 0>>, <<0, One, 0>>, <<One, 2 * One, One>>}

Frames == [type : FrameTypes, size : Lengths \X Lengths \X Lengths, radius : {Half, One},
           position : FramePositions, rotation : Rotation]

Scales == (1..MaxScale) \X (1..MaxScale) \X (1..MaxScale)

NoChild == [shape |-> "none"]

\* A box branch that takes the frame's size as it is.
ChildShapeUnscaled(f, scale) ==
  CASE f.type = "box" ->
         [kind |-> "box", fallback |-> FALSE,
          halfExtents |-> <<OrElse(f.size[1], One) \div 2, OrElse(f.size[2], One) \div 2,
                            OrElse(f.size[3], One) \div 2>>]
    [] f.type = "sphere" ->
         [kind |-> "sphere", fallback |-> FALSE,
          radius |-> OrElse(f.radius, Half) * Max(Max(scale[1], scale[2]), scale[3])]
    [] f.type = "capsule" ->
         [kind |-> "sphere", fallback |-> FALSE,
          radius |-> OrElse(f.radius, Half) * Max(scale[1], scale[3])]
    [] OTHER ->
         [kind |-> "box", fallback |-> TRUE, halfExtents |-> <<Half, Half, Half>>]

\* The switch on frame.type: a box of the scaled half size, a sphere for
\* sphere and capsule, the unit box for every other type.
ChildShape(f, scale) ==
  CASE f.type = "box" ->
         [kind |-> "box", fallback |-> FALSE,
          halfExtents |-> <<(OrElse(f.size[1], One) * scale[1]) \div 2,
                            (OrElse(f.size[2], One) * scale[2]) \div 2,
                            (OrElse(f.size[3], One) * scale[3]) \div 2>>]
    [] f.type = "sphere" ->
         [kind |-> "sphere", fallback |-> FALSE,
          radius |-> OrElse(f.radius, Half) * Max(Max(scale[1], scale[2]), scale[3])]
    [] f.type = "capsule" ->
         [kind |-> "sphere", fallback |-> FALSE,
          radius |-> OrElse(f.radius, Half) * Max(scale[1], scale[3])]
    [] OTHER ->
         [kind |-> "box", fallback |-> TRUE, halfExtents |-> <<Half, Half, Half>>]

\* childPos: the frame's position scaled into world units.
ChildPos(f, scale) ==
  <<f.position[1] * scale[1], f.position[2] * scale[2], f.position[3] * scale[3]>>

\* childQuat: set to the X rotation; the products with yQuat and zQuat are
\* computed by mult into new quaternions and childQuat keeps its value.
ChildQuat(f) ==
  LET childQuat == SetFromAxisAngle("x", Radians(f.rotation.x))
      yQuat == SetFromAxisAngle("y", Radians(f.rotation.y))
      zQuat == SetFromAxisAngle("z", Radians(f.rotation.z))
      discarded == Mult(Mult(childQuat, yQuat), zQuat)
  IN childQuat

FrameInit ==
  /\ frame \in Frames
  /\ worldScale \in Scales
  /\ child = NoChild

FrameIdle ==
  /\ frame = [type |-> "box", size |-> <<One, One, One>>, radius |-> Half,
              position |-> <<0, 0, 0>>, rotation |-> [x |-> 0, y |-> 0, z |-> 0]]
  /\ worldScale = <<1, 1, 1>>
  /\ child = NoChild

\* addBody of the compound body: body.addShape(childShape, childPos, childQuat)
AddChildShape ==
  /\ child = NoChild
  /\ child' = [shape |-> ChildShape(frame, worldScale),
               position |-> ChildPos(frame, worldScale),
               quaternion |-> ChildQuat(frame)]
  /\ UNCHANGED <<frame, worldScale>>
  /\ UNCHANGED <<buildVars, stepVars, inferVars, restVars>>

\* removeBody of the compound body
RemoveChildShape ==
  /\ child # NoChild
  /\ child' = NoChild
  /\ UNCHANGED <<frame, worldScale>>
  /\ UNCHANGED <<buildVars, stepVars, inferVars, restVars>>

FrameNext == AddChildShape \/ RemoveChildShape

\* ----- shape inference --------------------------------------------------------------
\* autoDetectCollisionShape and detectPrimitiveShape.  A mesh is what decides
\* the outcome: the number of its vertices and which of the geometric tests
\* (isBox, isSphere, isCylinder, tried in this order) its vertex set passes.

\* Vertex limits of detectPrimitiveShape and of the convex / trimesh choice.
PrimitiveMaxVertices == 200
ConvexMaxVertices == 500

\* Least numbers of vertices isSphere and isCylinder accept.
SphereMinVertices == 10
CylinderMinVertices == 12

\* Vertices of THREE.SphereGeometry(r, w, h): a grid of (w + 1) x (h + 1).
SphereVertexCount(w, h) == (w + 1) * (h + 1)

VertexCounts == {8, 9, 10, 11, 12, 24, SphereVertexCount(8, 6), 200, 201, 499, 500,
                 SphereVertexCount(32, 16), 600}

Forms == {"box", "sphere", "cylinder", "irregular"}

NoMesh == [form |-> "none"]

Meshes == [form : Forms, vertexCount : VertexCounts] \cup {NoMesh}

NoShapeInfo == [type |-> "none"]

\* detectPrimitiveShape(geometry, worldSize): "none" stands for null.
DetectPrimitiveShape(m) ==
  IF m.vertexCount > PrimitiveMaxVertices THEN "none"
  ELSE IF m.form = "box" THEN "box"
  ELSE IF m.form = "sphere" /\ m.vertexCount >= SphereMinVertices THEN "sphere"
  ELSE IF m.form = "cylinder" /\ m.vertexCount >= CylinderMinVertices THEN "cylinder"
  ELSE "none"

\* autoDetectCollisionShape(object)
AutoDetectCollisionShape(m) ==
  IF m = NoMesh THEN [type |-> "box", size |-> Half]
  ELSE IF DetectPrimitiveShape(m) # "none" THEN [type |-> DetectPrimitiveShape(m)]
  ELSE IF m.vertexCount < ConvexMaxVertices THEN [type |-> "convex"]
  ELSE [type |-> "trimesh"]

\* Sizes of world bounding boxes: 1 .. MaxBoxSize scene units on each axis.
MaxBoxSize == 2

InQuarters(n) == 4 * n

WorldSizes == {<<InQuarters(a), InQuarters(b), InQuarters(c)>> : a, b, c \in 1..MaxBoxSize}

\* The size detectPrimitiveShape returns with a box, from the world size.
DetectedBoxSize(worldSize) == [i \in 1..3 |-> worldSize[i] \div 2]

\* The size autoDetectCollisionShape returns for an object without mesh: 0.5.
DefaultBoxSize == [i \in 1..3 |-> InQuarters(1) \div 2]

\* shapeInfo.size of a description of type box.
ShapeInfoSize(m, worldSize) ==
  IF m = NoMesh THEN DefaultBoxSize ELSE DetectedBoxSize(worldSize)

\* The half-extents addBody gives the CANNON.Box of type 'box'.
BoxHalfExtents(size) == [i \in 1..3 |-> size[i] \div 2]

\* The explicit auto-create branch of play() for a Mesh that is not the
\* player: bodyOptions take type and size from the detected description and
\* addBody builds the shape.  Only a box carries its extents here.
AutoCreateBuild(m, worldSize) ==
  LET shapeInfo == AutoDetectCollisionShape(m)
  IN IF shapeInfo.type = "box"
       THEN [shape |-> "box", halfExtents |-> BoxHalfExtents(ShapeInfoSize(m, worldSize))]
       ELSE [shape |-> shapeInfo.type]

InferInit ==
  /\ inferMesh \in Meshes
  /\ inferred = NoShapeInfo
  /\ inferSize \in WorldSizes
  /\ inferBody = NoBody

InferIdle ==
  /\ inferMesh = NoMesh
  /\ inferred = NoShapeInfo
  /\ inferSize = <<InQuarters(1), InQuarters(1), InQuarters(1)>>
  /\ inferBody = NoBody

\* play() or the inspector asks for the object's shape.
Infer ==
  /\ inferred' = AutoDetectCollisionShape(inferMesh)
  /\ UNCHANGED <<inferMesh, inferSize, inferBody>>
  /\ UNCHANGED <<buildVars, stepVars, frameVars, restVars>>

\* play() reaches the object's explicit auto-create request.
PlayAutoCreate ==
  /\ inferred' = AutoDetectCollisionShape(inferMesh)
  /\ inferBody' = AutoCreateBuild(inferMesh, inferSize)
  /\ UNCHANGED <<inferMesh, inferSize>>
  /\ UNCHANGED <<buildVars, stepVars, frameVars, restVars>>

InferNext == Infer \/ PlayAutoCreate

\* ----- specifications ---------------------------------------------------------------

InspIdle == InspInit([enabled |-> FALSE, isStatic |-> FALSE, isTrigger |-> FALSE,
                      mass |-> DefaultMass, size |-> 1])

FnIdle == BuildIdle /\ StepInit /\ FrameIdle /\ InferIdle

\* The state of the other parts while one operation is applied.
RestIdle == Init /\ CharInit("Group") /\ RouterInit /\ InspIdle /\ EditIdle /\ RegInit

BuildSpecInit == RestIdle /\ BuildInit /\ StepInit /\ FrameIdle /\ InferIdle

BuildSpec == BuildSpecInit /\ [][BuildNext]_allVars

StepSpecInit == RestIdle /\ BuildIdle /\ StepInit /\ FrameIdle /\ InferIdle

FrameSpecInit == RestIdle /\ BuildIdle /\ StepInit /\ FrameInit /\ InferIdle

FrameSpec == FrameSpecInit /\ [][FrameNext]_allVars

InferSpecInit == RestIdle /\ BuildIdle /\ StepInit /\ FrameIdle /\ InferInit

InferSpec == InferSpecInit /\ [][InferNext]_allVars

StepSpec == StepSpecInit /\ [][StepNext]_allVars

CharSpecInit == Init /\ (\E k \in Kinds : CharInit(k)) /\ RouterInit /\ InspIdle /\ FnIdle /\ EditIdle /\ RegInit

RouterSpecInit == Init /\ CharInit("Group") /\ RouterInit /\ InspIdle /\ FnIdle /\ EditIdle /\ RegInit

RouterSpec == RouterSpecInit /\ [][RouterNext]_allVars

InspSpecInit == Init /\ CharInit("Group") /\ RouterInit /\ (\E c \in InitialConfigs : InspInit(c)) /\ FnIdle /\ EditIdle /\ RegInit

InspSpec == InspSpecInit /\ [][InspNext]_allVars

CharSpec == CharSpecInit /\ [][CharNext]_allVars

\* The character's session with the inspector's physics controls, which stay
\* usable during play.
CtrlNext ==
  \/ CharNext
  \/ \E enabled \in BOOLEAN : CharUpdatePhysics(enabled)

CtrlSpec == CharSpecInit /\ [][CtrlNext]_allVars

EditSpecInit == Init /\ CharInit("Group") /\ RouterInit /\ InspIdle /\ FnIdle /\ EditInit /\ RegInit

EditSpec == EditSpecInit /\ [][EditNext]_allVars

RegSpecInit == Init /\ CharInit("Group") /\ RouterInit /\ InspIdle /\ FnIdle /\ EditIdle /\ RegInit

RegSpec == RegSpecInit /\ [][RegNext]_allVars

\* ----- specification --------------------------------------------------------

Next ==
  \/ \E o \in Objs, k \in Kinds, t \in Transform, m \in Metadata : AddObject(o, k, t, m)
  \/ \E o \in Objs : RemoveObject(o)
  \/ \E o \in Objs, props \in PhysicsProps : UpdatePhysicsProperties(o, props)
  \/ \E o \in Objs, n \in 0..MaxFrames : UpdateObjectData(o, n)
  \/ \E o \in Objs, t \in Transform : UpdateObjectTransform(o, t)
  \/ EnablePhysics
  \/ DisablePhysics
  \/ ActivateAllPhysicsBodies
  \/ DeactivateAllPhysicsBodies
  \/ ResetPhysics
  \/ PlayStart
  \/ PlayBuild
  \/ PlayFinish
  \/ Pause
  \/ Resume
  \/ Stop
  \/ Step

SpecInit == Init /\ CharInit("Group") /\ RouterInit /\ InspIdle /\ FnIdle /\ EditIdle /\ RegInit

Spec == SpecInit /\ [][Next]_allVars

\* The store, the play store and the stepper together with the debugger's buttons.
DebugNext ==
  \/ Next
  \/ HandleManualPhysicsTest
  \/ \E o \in Objs : HandleForcePhysicsOnCube(o)

DebugSpec == SpecInit /\ [][DebugNext]_allVars

\* The editor's store operations and the play session, without the buttons
\* that switch the simulator on and off directly.
SessionNext ==
  \/ \E o \in Objs, k \in Kinds, t \in Transform, m \in Metadata : AddObject(o, k, t, m)
  \/ \E o \in Objs : RemoveObject(o)
  \/ \E o \in Objs, props \in PhysicsProps : UpdatePhysicsProperties(o, props)
  \/ \E o \in Objs, n \in 0..MaxFrames : UpdateObjectData(o, n)
  \/ \E o \in Objs, t \in Transform : UpdateObjectTransform(o, t)
  \/ PlayStart
  \/ PlayBuild
  \/ PlayFinish
  \/ Pause
  \/ Resume
  \/ Stop
  \/ Step

SessionSpec == SpecInit /\ [][SessionNext]_allVars

TypeOK ==
  /\ objects \subseteq Objs
  /\ playPc \in {"idle", "started", "built"}
  /\ \A o \in Objs : orphans[o] \in 0..MaxOrphans

\* ----- claims ---------------------------------------------------------------

\* Objects play() ends up giving a body: every physics-enabled Mesh (frames,
\* autoCreate or the activateAllPhysicsBodies safeguard) and every
\* physics-enabled Group root with an autoCreate request and no frames.
PlayBuilds(o) ==
  Enabled(o) /\ (kind[o] = "Mesh" \/ (collisionFrames[o] = 0 /\ physics[o].autoCreate))

\* C1: immediately after a completed stop() the registry holds no body.
C1_StopEmptiesRegistry ==
  [][Stop => \A o \in Objs : bodies'[o] = NoBody]_vars

\* C2: isPlaying flips to true only as the last step of play(), when every
\* object play() gives a body has one and the simulator is enabled; while a
\* play() that started outside a session is still running, isPlaying is false.
C2_PlayingOnlyAfterBodies ==
  /\ [][(~isPlaying /\ isPlaying') =>
         /\ playPc = "built" /\ playPc' = "idle"
         /\ simEnabled'
         /\ \A o \in Objs : PlayBuilds(o) => bodies'[o] # NoBody]_vars
  /\ []((playPc # "idle" /\ rt \in {"p1", "p2"}) => ~isPlaying)

C2_Witness ==
  /\ isPlaying /\ playPc = "idle" /\ simEnabled
  /\ \E o \in Objs : PlayBuilds(o) /\ HasBody(o) /\ bodies[o].type \in {"compound", "detected"}

\* C3: after play(); stop(); play(); stop() with only simulation steps in
\* between, the registry is empty and every object that had physics enabled
\* has the transform it had before the first play().
C3_RoundTrip ==
  rt = "s2" =>
    /\ \A o \in Objs : ~HasBody(o)
    /\ \A o \in Objs : pre[o] # NoSnap => visual[o] = pre[o]

\* C4: play() leaves the registry entry of a physics-enabled object with no
\* collision frames and no autoCreate request as it was.
C4_NoSilentAutoCreate ==
  [][PlayBuild =>
       \A o \in Objs :
         (Enabled(o) /\ collisionFrames[o] = 0 /\ ~physics[o].autoCreate)
           => bodies'[o] = bodies[o]]_vars

\* C5: when play() has built the bodies, every physics-enabled object with
\* collision frames, Mesh or Group root, has a compound body built from them.
C5_FramesGiveCompound ==
  playPc = "built" =>
    \A o \in Objs :
      (Enabled(o) /\ collisionFrames[o] > 0)
        => /\ HasBody(o)
           /\ bodies[o].type = "compound"
           /\ bodies[o].frames = collisionFrames[o]

\* C6: a second add for an object that has a registered body leaves the
\* registry entry and the back-reference on the body built from the second
\* options (addObject on a registered Mesh; updatePhysicsProperties on a
\* registered object).
C6_SecondAddWins ==
  [][\A o \in Objs :
       /\ (HasBody(o) /\ kind[o] = "Mesh"
             /\ AddObject(o, kind[o], visual[o], [hasPhysics |-> TRUE, enabled |-> TRUE]))
            => /\ bodies'[o] = [kind |-> "DYNAMIC", type |-> "box", frames |-> 0, t |-> visual[o]]
               /\ physicsBodyRef'[o]
       /\ (HasBody(o) /\ physics'[o] \in PhysicsProps /\ physics'[o].enabled
             /\ UpdatePhysicsProperties(o, physics'[o]))
            => /\ bodies'[o].kind = (IF physics'[o].isTrigger THEN "KINEMATIC"
                                      ELSE IF physics'[o].isStatic THEN "STATIC" ELSE "DYNAMIC")
               /\ bodies'[o].type = (IF physics'[o].autoCreate THEN "convex" ELSE "box")
               /\ bodies'[o].t = visual[o]
               /\ physicsBodyRef'[o]]_vars

C6_Witness ==
  \E o \in Objs : orphans[o] > 0 /\ HasBody(o) /\ physicsBodyRef[o] /\ bodies[o].type = "box"

\* C7: the simulator world never holds two bodies created for the same object.
C7_NoDuplicateBodies ==
  \A o \in Objs : WorldCount(o) <= 1

\* C8: pause() keeps the registry and, in a session, disables the simulator;
\* step() never changes whether the simulator is enabled, and a step() made in
\* a paused session whose simulator pause() disabled changes no body and no
\* visual transform; resume() keeps the registry and enables the simulator.
C8_PausePreservesBodies ==
  [][/\ Pause => (bodies' = bodies /\ (isPlaying => (isPaused' /\ ~simEnabled')))
     /\ Step => (simEnabled' = simEnabled /\ isPaused' = isPaused)
     /\ (isPlaying /\ isPaused /\ ~simEnabled /\ Step) => (bodies' = bodies /\ visual' = visual)
     /\ Resume => (bodies' = bodies /\ simEnabled' /\ ~isPaused')]_vars

C8_Witness ==
  /\ isPlaying /\ isPaused /\ ~simEnabled /\ playPc = "idle"
  /\ \E o \in Objs : HasBody(o) /\ bodies[o].kind = "DYNAMIC" /\ bodies[o].t > 0

\* C9: during a session the snapshot stays the transform the object had when
\* the session started, also across a further play(), and stop() restores it.
C9_SnapshotOnce ==
  /\ (rt \in {"p1", "pp"} /\ playPc = "idle")
       => \A o \in Objs : pre[o] # NoSnap => original[o] = pre[o]
  /\ rt = "pps" => \A o \in Objs : pre[o] # NoSnap => visual[o] = pre[o]

\* C10: step() does not write the transform of an object whose body is
\* STATIC or KINEMATIC.
C10_OnlyDynamicWritten ==
  [][Step =>
       \A o \in Objs :
         (HasBody(o) /\ bodies[o].kind # "DYNAMIC") => visual'[o] = visual[o]]_vars

\* ----- claims on the character controller and the frame loops -------------------

\* The browser keeps running frames and fires the timers that were set.
CharLiveSpec ==
  /\ CharSpecInit
  /\ [][CharNext]_allVars
  /\ WF_allVars(BeginFrame)
  /\ WF_allVars(RunAnimate)
  /\ WF_allVars(RunLoop)
  /\ WF_allVars(RetryTimeout)

\* C11: while the controller owns the character's body, a step of the physics
\* world (the stepping half of animate()) leaves the character's position alone.
C11_StepLeavesCharacter ==
  [][(RunAnimate /\ isPlaying /\ simEnabled /\ ctrlActive /\ ctrlBody) => player' = player]_allVars

\* C12: with no movement key held, neither callback of a frame (the step in
\* animate(), the controller's update) moves the body-driven character
\* sideways or upwards.
C12_FreeFallNeverRises ==
  [][((RunAnimate \/ RunLoop) /\ isPlaying /\ ctrlActive /\ cameraRef /\ ctrlBody /\ ~moveKey)
       => (player'.x = player.x /\ player'.y <= player.y)]_allVars

\* C13: animate() is ahead of the controller's loop() in every frame and in
\* every registration order, so the step's write-back comes before the
\* controller's update of the same frame; and while the controller is active no
\* step follows a step without an update of the controller between them.
C13_StepThenTick ==
  /\ [](\A q \in {rafQueue, frameRun} : \A i, j \in DOMAIN q :
          (q[i] = "loop" /\ q[j] = "animate") => j < i)
  /\ [][(RunAnimate /\ isPlaying /\ simEnabled /\ ctrlActive) => lastRan # "step"]_allVars

\* A frame of a session in which the step moved the character down and the
\* controller's update then ran on the adopted body.
C13_Witness ==
  /\ isPlaying /\ simEnabled /\ ctrlActive /\ cameraRef /\ ctrlBody
  /\ charKind = "Group"
  /\ lastRan = "tick"
  /\ frameRun = <<>>
  /\ rafQueue = <<"animate", "loop">>
  /\ player.y < CharStart.y

\* C14: a body registered for the character while the controller is active is
\* eventually adopted by the controller, unless the session ends first.
C14_EventuallyAdopts ==
  (isPlaying /\ ctrlActive /\ charBody # NoBody) ~> (ctrlBody \/ ~ctrlActive)

\* ----- claims on the contact routing ----------------------------------------------

\* A body that is kinematic with collision response disabled.
Sensor(b) == b # NoBody /\ b.cannonType = "KINEMATIC" /\ ~b.collisionResponse

\* C15: a beginContact whose two bodies are registered dispatches only 'enter'
\* if a body of the pair was built as a trigger platform (type 'platform');
\* else 'land' and the generic collision notification if one was built as a
\* solid platform; else only the generic collision notification.
C15_BeginRouting ==
  (lastEvent.kind = "begin" /\ lastEvent.found) =>
     IF "platform" \in {lastEvent.a.type, lastEvent.b.type}
       THEN lastEvent.platform = {"enter"} /\ ~lastEvent.audio
       ELSE IF "solidPlatform" \in {lastEvent.a.type, lastEvent.b.type}
              THEN lastEvent.platform = {"land"} /\ lastEvent.audio
              ELSE lastEvent.platform = {} /\ lastEvent.audio

\* A crate has just landed on a solid platform with listeners of both kinds.
C15_Witness ==
  /\ lastEvent.kind = "begin"
  /\ lastEvent.found
  /\ "solidPlatform" \in {lastEvent.a.type, lastEvent.b.type}
  /\ lastEvent.invokedP # {}
  /\ lastEvent.invokedA # {}

\* C16: a contact event of a registered pair with a kinematic body whose
\* collision response is disabled dispatches 'enter' at its begin and 'exit'
\* at its end.
C16_SensorsAreTriggerPlatforms ==
  (lastEvent.kind # "none" /\ lastEvent.found /\ (Sensor(lastEvent.a) \/ Sensor(lastEvent.b))) =>
     lastEvent.platform = (IF lastEvent.kind = "begin" THEN {"enter"} ELSE {"exit"})

\* C17: an endContact dispatches nothing but 'exit', and 'exit' only when both
\* bodies are registered and one was built as a trigger platform.
C17_EndRouting ==
  lastEvent.kind = "end" =>
     /\ lastEvent.platform \subseteq {"exit"}
     /\ ~lastEvent.audio
     /\ lastEvent.invokedA = {}
     /\ "exit" \in lastEvent.platform =>
          (lastEvent.found /\ "platform" \in {lastEvent.a.type, lastEvent.b.type})

\* The contact of a crate with a solid platform has just ended, with a platform
\* listener registered, and nothing was dispatched.
C17_Witness ==
  /\ lastEvent.kind = "end"
  /\ lastEvent.found
  /\ "solidPlatform" \in {lastEvent.a.type, lastEvent.b.type}
  /\ platformCallbacks # <<>>
  /\ lastEvent.invokedP = {}

\* C18: an 'enter' that was delivered and not yet followed by an 'exit' belongs
\* to a contact the simulator still holds open: once the end of the contact
\* has been reported, the 'exit' has been dispatched.
C18_EnterThenExit == pendingEnter => contact.open

\* C19: a contact event invokes every registered callback of each category it
\* dispatches to, throwing ones or not, no exception leaves the handler, and
\* the callback sets are as before.
C19_ThrowingListener ==
  /\ [](lastEvent.kind # "none" =>
          /\ ~lastEvent.escaped
          /\ lastEvent.invokedP = (IF lastEvent.platform # {} THEN Range(platformCallbacks) ELSE {})
          /\ lastEvent.invokedA = (IF lastEvent.audio THEN Range(audioCallbacks) ELSE {}))
  /\ [][lastEvent'.kind # "none" =>
          (audioCallbacks' = audioCallbacks /\ platformCallbacks' = platformCallbacks)]_allVars

\* A landing was dispatched to both categories, each with a throwing callback
\* registered before a well-behaved one.
C19_Witness ==
  /\ lastEvent.kind = "begin"
  /\ lastEvent.platform = {"land"}
  /\ platformCallbacks = <<"bad", "good">>
  /\ audioCallbacks = <<"bad", "good">>
  /\ "good" \in lastEvent.invokedP
  /\ "good" \in lastEvent.invokedA

\* ----- claims on the physics inspector ----------------------------------------------

\* C20: the stored config of a static object has mass 0, and unchecking Static
\* on a config of mass 0 stores the default mass, which is positive.
C20_StaticMassZero ==
  /\ [](inspStored.isStatic => inspStored.mass = 0)
  /\ [][(inspPhysics.isStatic /\ ~inspPhysics'.isStatic /\ inspPhysics.mass = 0)
          => (inspStored'.mass = DefaultMass /\ inspStored'.mass > 0 /\ ~inspStored'.isStatic)]_allVars

\* A static object, enabled with the size of its bounding box, stored with mass 0.
C20_Witness ==
  /\ inspStored.isStatic
  /\ inspStored.mass = 0
  /\ inspStored.enabled
  /\ inspStored.size > 1

\* ----- claims C21 .. C30 --------------------------------------------------------

\* C21: a body created from a config with isStatic = false and mass = 0 has
\* its mass corrected to a positive default first, whichever caller creates
\* it: no non-static body that is no platform is created with mass 0.
C21_MassCorrected ==
  (built # NoBuilt /\ ~buildCfg.isStatic /\ buildCfg.mass = 0
     /\ built.type \notin {"platform", "solidPlatform"})
    => built.mass > 0

\* C22: every call of step(dt) that runs, whoever makes it, advances the
\* world by min(dt, 1/30 s).
C22_StepClamped ==
  (stepCall # NoStep /\ stepCall.ran)
    => stepCall.advanced = (IF stepCall.dt <= ThirtiethSecond THEN stepCall.dt
                            ELSE ThirtiethSecond)

C24_AutoCreateOffset ==
  [][(\E ox \in 0..1, cam \in BOOLEAN : CharPlay(TRUE, ox, cam))
       => (/\ charBody'.hasOffset
           /\ charBody'.y = player.y + CapsuleOffset)]_allVars

C26_ChildRotationXYZ ==
  child # NoChild =>
    child.quaternion = Mult(Mult(SetFromAxisAngle("x", Radians(frame.rotation.x)),
                                 SetFromAxisAngle("y", Radians(frame.rotation.y))),
                            SetFromAxisAngle("z", Radians(frame.rotation.z)))

\* C27: a frame of type box, sphere, cylinder or capsule gets a child shape of
\* its own kind (a capsule may be rounded to a sphere or a cylinder), never the
\* unit-box fallback.
C27_OwnKind ==
  (child # NoChild /\ frame.type \in {"box", "sphere", "cylinder", "capsule"})
    => /\ ~child.shape.fallback
       /\ child.shape.kind \in (IF frame.type = "capsule"
                                  THEN {"capsule", "cylinder", "sphere"}
                                  ELSE {frame.type})

\* C28: addBody never leaves a body without a shape: for an unknown type, and
\* for a trimesh or convex request whose construction throws or gives no usable
\* hull, the registered body carries the fallback box.
C28_NeverShapeless ==
  built # NoBuilt =>
    /\ built.shape # "none"
    /\ built.type = "other" => built.shape = "box"
    /\ (built.type \in {"trimesh", "convex"} /\ buildObj.hull \in {"none", "throws"})
         => built.shape = "box"
    /\ (built.type = "convex" /\ buildObj.hull = "noIndex") => built.shape = "box"

\* C29: every body built for a ground-like object has the identity
\* orientation, whatever the object's rotation and whether its config is
\* static or dynamic.
C29_GroundLevel ==
  (built # NoBuilt /\ buildObj.ground) => built.quaternion = IdentityQuat

\* C30: shape inference returns sphere for a sphere mesh of 32 x 16 segments;
\* for a mesh that matches no primitive it returns trimesh from 500 vertices
\* on and convex below; for an object without mesh it returns the small
\* default box.
C30_Inference ==
  inferred # NoShapeInfo =>
    /\ (inferMesh # NoMesh /\ inferMesh.form = "sphere"
          /\ inferMesh.vertexCount = SphereVertexCount(32, 16))
         => inferred.type = "sphere"
    /\ (inferMesh # NoMesh /\ inferMesh.form = "irregular")
         => inferred.type = (IF inferMesh.vertexCount >= 500 THEN "trimesh" ELSE "convex")
    /\ inferMesh = NoMesh => inferred = [type |-> "box", size |-> Half]

\* ----- claims C31 .. C40 --------------------------------------------------------

\* C31: no body with a triangle-mesh shape is registered for an object that
\* contains a skinned mesh, whichever caller created the body.
C31_SkinnedNeverTrimesh ==
  (buildObj.skinned /\ built # NoBuilt) => built.shape # "trimesh"

\* C32: the registry never holds more bodies than there are objects whose
\* physics config is enabled.
C32_RegistryWithinEnabled ==
  Cardinality({o \in Objs : HasBody(o)}) <= Cardinality({o \in Objs : Enabled(o)})

\* C33: once a call of play(), pause(), resume() or stop() has returned, the
\* simulator is enabled only if the session is playing and not paused.
C33_EnabledOnlyWhilePlaying ==
  (playPc = "idle" /\ simEnabled) => (isPlaying /\ ~isPaused)

\* C34: whenever play() has returned, with or without a scene, the store's
\* suppression of collisionFrames writes is off.
C34_SuppressionReleased ==
  ~edSuppress

C36_OneShapePerFrame ==
  (built # NoBuilt /\ built.type = "compound" /\ built.children >= 1)
    => ShapeCount(built) = built.children

\* C37: an object's userData.physicsBody is set exactly when the registry
\* holds a body for the object, and is then that body.
C37_BackRefMatchesRegistry ==
  \A o \in RegObjs : regBackRef[o] = regBodies[o]

C39_ControllerBodyRegistered ==
  (isPlaying /\ ctrlBody) => (heldBody = NoBody /\ charBody # NoBody)

\* C40: for a mesh classified as box whose body play() builds through
\* autoCreate, the box half-extents are half the world bounding-box size on
\* each axis.
C40_BoxHalfExtents ==
  (inferBody # NoBody /\ inferMesh # NoMesh /\ inferred.type = "box")
    => \A i \in 1..3 : 2 * inferBody.halfExtents[i] = inferSize[i]

====
